---------------------------- MODULE Spec2Model ----------------------------
(***************************************************************************)
(* Crash recovery from the write-ahead journal (src/db/dur_recover.cpp).   *)
(*                                                                         *)
(* Two specifications are given:                                           *)
(*   SpecGetFiles  getFiles(): the enumeration of the journal directory,   *)
(*                 one directory entry per step;                           *)
(*   Spec          recover() from the call of RecoveryJob::go() on: the    *)
(*                 journal files are read token by token, the sections     *)
(*                 are applied to the destination files, the job closes    *)
(*                 and cleans up.                                          *)
(*                                                                         *)
(* A journal file is a sequence of tokens: a file header, then the entries *)
(* of each section up to its footer.  The content of a journal file is     *)
(* chosen when it is read (the journal is read once, front to back) and    *)
(* recorded in the variable journal, so that journal holds, at any moment, *)
(* the part of the input the recovery has looked at.                       *)
(***************************************************************************)
EXTENDS Integers, Sequences, FiniteSets, TLC

(***************************************************************************)
(* Bounds of the model.                                                    *)
(***************************************************************************)
\* unsigned has 2^UnsignedBits values (32 bits in the build)
UnsignedBits == 2
\* number of entries of the journal directory
MaxDirLen == 3
\* number of journal files handed to RecoveryJob::go
MaxFiles == 2
\* number of entries (basic writes, ObjAppends, DurOps) read from all journal files
MaxEntries == 3
\* number of JDbContext read from all journal files
MaxContexts == 2
\* number of entries read from all journal files in a scan-only run
MaxScanEntries == 2
\* a damaged journal tail (a zero word, a footer or a JDbContext the file ends in)
\* comes after at most this many entries
MaxDamagedAfter == 1
\* number of sections (footers read) over all journal files
MaxSections == 2

UnsignedMod == 2 ^ UnsignedBits

\* length in bytes of a destination data file
FileLen == 6
\* number of values of the section checksum
HashMod == 2

(***************************************************************************)
(* Program constants.                                                      *)
(***************************************************************************)
\* JEntry::DotNsSuffix: the file number that denotes the ".ns" file
DotNsSuffix == 2147483647
\* BSON type Object, the first preamble byte stamped by an ObjAppend
Object == 3
\* 'o', the second preamble byte
LetterO == 111
\* BSON end-of-object marker
EOO == 0

VARIABLES
    \* ---- getFiles
    dir,          \* the directory, in the order the directory iterator yields it
    gpos,         \* index of the next directory entry to visit
    m,            \* map<unsigned,path>: journal number -> index of the entry in dir
    files,        \* vector<path>& files: indexes into dir, in the order pushed
    gpc,          \* "absent" (no journal directory), "iter", "returned", or the
                  \* code getFiles failed with
    \* ---- RecoveryJob and JournalIterator
    pc,           \* position in recover() / RecoveryJob::go()
    durScanOnly,  \* cmdLine.durOptions & CmdLine::DurScanOnly
    i,            \* loop variable of go(), counted from 1
    abruptEnd,    \* what processFile returned
    sectHead,     \* JournalIterator::_sectHead is set
    lastDbName,   \* JournalIterator::_lastDbName
    entries,      \* vector<ParsedJournalEntry> entries of processBuffer
    ai,           \* position of applyEntries in entries, counted from 1
    fileToPtr,    \* RecoveryJob::_fileToPtr
    mfiles,       \* RecoveryJob::_files
    disk,         \* the destination files: name -> [exists, data]
    dirty,        \* destination files written through a mapping since the last flushAll
    journalPresent, \* removeJournalFiles() has not emptied the journal directory
    okToCleanUp,
    error,        \* "none", or what recovery failed with
    \* ---- history
    journal,      \* per journal file, the tokens read from it so far
    sect,         \* number of the section being read or applied in the current file
    applied,      \* the entries applied to the destination files, in order
    boundary,     \* disk as it was when the last section ended (or recovery began)
    nmaps,        \* number of MemoryMappedFile objects created so far
    \* ---- the 2d index (src/db/geo/2d.cpp)
    index,        \* the documents of the indexed collection
    query,        \* the query a GeoSearch or a GeoBrowse was constructed for
    hopper,       \* the GeoHopper of a nearest-point search
    search,       \* the GeoSearch object
    browse,       \* the GeoBrowse object (a region cursor)
    ret           \* the cursor call made last and what it returned

gfVars == <<dir, gpos, m, files, gpc>>
itVars == <<sectHead, lastDbName, entries, journal, sect>>
mapVars == <<fileToPtr, mfiles, nmaps>>
rjVars == <<pc, durScanOnly, i, abruptEnd, sectHead, lastDbName, entries, ai,
            fileToPtr, mfiles, disk, dirty, journalPresent, okToCleanUp, error,
            journal, sect, applied, boundary, nmaps>>
vars == <<dir, gpos, m, files, gpc, pc, durScanOnly, i, abruptEnd, sectHead,
          lastDbName, entries, ai, fileToPtr, mfiles, disk, dirty, journalPresent,
          okToCleanUp, error, journal, sect, applied, boundary, nmaps,
          index, query, hopper, search, browse, ret>>
geoVars == <<index, query, hopper, search, browse, ret>>

\* no geo query is running
NoObject == [kind |-> "none"]
IdleGeo ==
    /\ index = << >>
    /\ query = NoObject
    /\ hopper = NoObject
    /\ search = NoObject
    /\ browse = NoObject
    /\ ret = NoObject

(***************************************************************************)
(* The destination data files.                                             *)
(***************************************************************************)
\* const char* that is 0
NullPtr == "(null)"

DbNames == {"local", "a", "b"}

\* ptr(): ss << dbName << '.'; then "ns" if fileNo == DotNsSuffix, else fileNo
FileName(dbName, fileNo) ==
    <<dbName, IF fileNo = DotNsSuffix THEN "ns" ELSE ToString(fileNo)>>

FileNames == {FileName(d, n) : d \in DbNames, n \in {0, DotNsSuffix}}

\* the byte a data file holds at ofs before recovery: all different
InitByte(name, ofs) ==
    10 * (CASE name[1] = "local" -> 1 [] name[1] = "a" -> 2 [] OTHER -> 3)
    + (IF name[2] = "ns" THEN 30 ELSE 0) + ofs

\* the data files recovery finds: a.ns has length zero, b.ns does not exist
InitDisk ==
    [name \in FileNames |->
        CASE name = <<"a", "ns">> -> [exists |-> TRUE, data |-> << >>]
          [] name = <<"b", "ns">> -> [exists |-> FALSE, data |-> << >>]
          [] OTHER -> [exists |-> TRUE,
                       data |-> [k \in 1 .. FileLen |-> InitByte(name, k - 1)]]]

\* the bytes of a file at offsets ofs .. ofs+len-1
ReadBytes(dsk, name, ofs, len) ==
    [k \in 1 .. len |-> dsk[name].data[ofs + k]]

\* a copy that lands one byte late
WriteBytesShifted(dsk, name, ofs, bytes) ==
    [dsk EXCEPT ![name].data =
        [k \in 1 .. Len(@) |->
            IF k - 1 \in ofs + 1 .. ofs + Len(bytes) THEN bytes[k - 1 - ofs] ELSE @[k]]]

\* memcpy(p, bytes, len) where p points at offset ofs of the mapping of name
WriteBytes(dsk, name, ofs, bytes) ==
    [dsk EXCEPT ![name].data =
        [k \in 1 .. Len(@) |->
            IF k - 1 >= ofs /\ k - 1 < ofs + Len(bytes) THEN bytes[k - ofs] ELSE @[k]]]

\* every byte a write of len bytes at ofs touches lies in the file
InExtent(dsk, name, ofs, len) ==
    /\ name \in DOMAIN dsk /\ dsk[name].exists
    /\ ofs >= 0 /\ ofs + len <= Len(dsk[name].data)

(***************************************************************************)
(* The journal: what a journal file may hold.                              *)
(***************************************************************************)
\* JEntry: a basic write; local is the LocalDbBit of its file number
BasicWrite(local, fileNo, ofs, data) ==
    [op |-> "Basic", local |-> local, fileNo |-> fileNo, ofs |-> ofs, data |-> data]

\* JObjAppend
ObjAppend(srcFileNo, srcOfs, dstFileNo, dstOfs, len) ==
    [op |-> "ObjAppend", srcFileNo |-> srcFileNo, srcOfs |-> srcOfs,
     dstFileNo |-> dstFileNo, dstOfs |-> dstOfs, len |-> len]

\* JDbContext followed by the database name; cut: the file ends inside the name
DbContext(db, cut) == [op |-> "DbContext", db |-> db, cut |-> cut]

\* FileCreatedOp and DropDbOp, the DurOps
FileCreated(db, fileNo, len) ==
    [op |-> "FileCreated", db |-> db, fileNo |-> fileNo, len |-> len]
DropDb(db) == [op |-> "DropDb", db |-> db]

\* JSectFooter: the recorded hash; cut = 0: whole, 1: the file ends inside the hash
\* field, 2: the file ends after the hash field and before the end of the footer
Footer(hash, cut) == [op |-> "Footer", hash |-> hash, cut |-> cut]

\* the file ends before the next word, header or structure is complete
Eof == [op |-> "Eof"]
\* the file ends at the end of a section
End == [op |-> "End"]
\* a lenOrOpCode word that is 0
Zero == [op |-> "Zero"]
\* JHeader, and what is wrong with it
Header(kind) == [op |-> "Header", kind |-> kind]

BasicTokens ==
    { BasicWrite(FALSE, 0, 1, <<71, 72>>),
      BasicWrite(FALSE, 0, 2, <<73>>),
      BasicWrite(FALSE, DotNsSuffix, 0, <<75>>),
      BasicWrite(TRUE, 0, 4, <<74>>) }
ObjAppendTokens == { ObjAppend(0, 1, 0, 3, 1) }
DurOpTokens == { FileCreated("b", DotNsSuffix, FileLen), DropDb("a") }
ContextNames == {"a", "b"}

RECURSIVE SumSeq(_)
SumSeq(q) == IF q = << >> THEN 0 ELSE Head(q) + SumSeq(Tail(q))

\* the bytes of a token, added up
TokenSum(t) ==
    CASE t.op = "Basic" -> 1 + t.ofs + SumSeq(t.data) + (IF t.local THEN 1 ELSE 0)
      [] t.op = "ObjAppend" -> 2 + t.srcOfs + t.dstOfs + t.len
      [] t.op = "DbContext" -> IF t.db = "a" THEN 3 ELSE 4
      [] t.op = "FileCreated" -> 5 + t.len
      [] t.op = "DropDb" -> 6
      [] OTHER -> 0

\* the digest of the bytes from the section header up to the footer
SectionDigest(tokens) ==
    SumSeq([k \in 1 .. Len(tokens) |-> TokenSum(tokens[k])]) % HashMod

\* JSectFooter::checkHash(_sectHead, len)
CheckHash(footer, tokens) == footer.hash = SectionDigest(tokens)

\* a next() that takes every footer for a good one
HashUnchecked(footer, tokens) == TRUE

\* if (!footer.checkHash(_sectHead, len)) massert(13594, ...): the section goes
\* on to applyEntries only when this holds
HashChecked(footer, tokens) == CheckHash(footer, tokens)

IsEntryToken(t) == t.op \in {"Basic", "ObjAppend", "DbContext", "FileCreated", "DropDb"}

\* index of the last token of q that starts or ends a section
RECURSIVE LastBoundary(_)
LastBoundary(q) ==
    IF q = << >> THEN 0
    ELSE IF q[Len(q)].op \in {"Header", "Footer"} THEN Len(q)
    ELSE LastBoundary(SubSeq(q, 1, Len(q) - 1))

\* the tokens read of the section that is being read
SectionTokens(q) == SubSeq(q, LastBoundary(q) + 1, Len(q))

RECURSIVE CountTokens(_, _)
CountTokens(q, ops) ==
    IF q = << >> THEN 0
    ELSE (IF Head(q).op \in ops THEN 1 ELSE 0) + CountTokens(Tail(q), ops)

RECURSIVE CountAll(_, _)
CountAll(j, ops) ==
    IF j = << >> THEN 0 ELSE CountTokens(Head(j), ops) + CountAll(Tail(j), ops)

EntriesRead == CountAll(journal, {"Basic", "ObjAppend", "FileCreated", "DropDb"})
ContextsRead == CountAll(journal, {"DbContext"})

\* the journal may hold one more entry
EntryBudget == EntriesRead < (IF durScanOnly THEN MaxScanEntries ELSE MaxEntries)
\* the journal may end damaged here
DamageBudget == EntriesRead <= MaxDamagedAfter
FootersRead == CountAll(journal, {"Footer"})

(***************************************************************************)
(* RecoveryJob: the state before go() is called.                           *)
(***************************************************************************)
NoMappings == << >>

IdleJob ==
    /\ pc = "idle"
    /\ durScanOnly = FALSE
    /\ i = 1
    /\ abruptEnd = FALSE
    /\ sectHead = FALSE
    /\ lastDbName = NullPtr
    /\ entries = << >>
    /\ ai = 1
    /\ fileToPtr = NoMappings
    /\ mfiles = << >>
    /\ disk = InitDisk
    /\ dirty = {}
    /\ journalPresent = TRUE
    /\ okToCleanUp = FALSE
    /\ error = "none"
    /\ journal = << >>
    /\ sect = 0
    /\ applied = << >>
    /\ boundary = InitDisk
    /\ nmaps = 0

(***************************************************************************)
(* getFiles                                                                *)
(***************************************************************************)
\* a directory entry: a file whose name starts with "j._" and the unsigned its
\* suffix parses to, or some other file
DirEntries ==
    [journal : {TRUE}, u : 0 .. UnsignedMod - 1] \cup {[journal |-> FALSE, u |-> 0]}

RECURSIVE SeqsUpTo(_, _)
SeqsUpTo(S, n) ==
    IF n = 0 THEN {<< >>}
    ELSE LET shorter == SeqsUpTo(S, n - 1)
         IN  shorter \cup {Append(s, x) : s \in {t \in shorter : Len(t) = n - 1}, x \in S}

\* u - 1 in unsigned arithmetic
UnsignedPred(u) == (u + UnsignedMod - 1) % UnsignedMod

\* the journal number of a path of files
NumberOf(p) == dir[p].u

\* for( map::iterator i = m.begin(); ... ) files.push_back(i->second): the keys of
\* m in ascending order
RECURSIVE SortedKeys(_)
SortedKeys(S) ==
    IF S = {} THEN << >>
    ELSE LET least == CHOOSE x \in S : \A y \in S : x <= y
         IN  <<least>> \o SortedKeys(S \ {least})

InitGetFiles ==
    /\ dir \in SeqsUpTo(DirEntries, MaxDirLen)
    /\ gpos = 1
    /\ m = << >>
    /\ files = << >>
    /\ gpc \in {"iter", "absent"}
    /\ gpc = "absent" => dir = << >>
    /\ IdleJob
    /\ IdleGeo

\* a file whose name does not start with "j._" is passed over
GetFilesSkip ==
    /\ gpc = "iter" /\ gpos <= Len(dir)
    /\ ~dir[gpos].journal
    /\ gpos' = gpos + 1
    /\ UNCHANGED <<dir, m, files, gpc>> /\ UNCHANGED rjVars /\ UNCHANGED geoVars

\* if( m.count(u) ) uasserted(13531)
GetFilesDuplicate ==
    /\ gpc = "iter" /\ gpos <= Len(dir)
    /\ dir[gpos].journal
    /\ dir[gpos].u \in DOMAIN m
    /\ gpc' = "13531"
    /\ UNCHANGED <<dir, gpos, m, files>> /\ UNCHANGED rjVars /\ UNCHANGED geoVars

\* if( !m.empty() && !m.count(u-1) ) uasserted(13532)
GetFilesNoPredecessor ==
    /\ gpc = "iter" /\ gpos <= Len(dir)
    /\ dir[gpos].journal
    /\ dir[gpos].u \notin DOMAIN m
    /\ DOMAIN m # {} /\ UnsignedPred(dir[gpos].u) \notin DOMAIN m
    /\ gpc' = "13532"
    /\ UNCHANGED <<dir, gpos, m, files>> /\ UNCHANGED rjVars /\ UNCHANGED geoVars

\* m.insert( pair<unsigned,path>(u,filepath) )
GetFilesInsert ==
    /\ gpc = "iter" /\ gpos <= Len(dir)
    /\ dir[gpos].journal
    /\ dir[gpos].u \notin DOMAIN m
    /\ ~(DOMAIN m # {} /\ UnsignedPred(dir[gpos].u) \notin DOMAIN m)
    /\ m' = [k \in DOMAIN m \cup {dir[gpos].u} |->
                IF k = dir[gpos].u THEN gpos ELSE m[k]]
    /\ gpos' = gpos + 1
    /\ UNCHANGED <<dir, files, gpc>> /\ UNCHANGED rjVars /\ UNCHANGED geoVars

\* the directory is exhausted: the paths are pushed in the order of the map
GetFilesReturn ==
    /\ gpc = "iter" /\ gpos > Len(dir)
    /\ files' = [k \in 1 .. Cardinality(DOMAIN m) |-> m[SortedKeys(DOMAIN m)[k]]]
    /\ gpc' = "returned"
    /\ UNCHANGED <<dir, gpos, m>> /\ UNCHANGED rjVars /\ UNCHANGED geoVars

(***************************************************************************)
(* recover(): the journal directory is looked up, getFiles lists it, and   *)
(* a RecoveryJob is run on the files found.                                *)
(***************************************************************************)
RecoverFrame ==
    /\ UNCHANGED <<durScanOnly, i, abruptEnd, sectHead, lastDbName, entries, ai,
                   fileToPtr, mfiles, disk, dirty, journalPresent, error, journal,
                   sect, applied, boundary, nmaps>>
    /\ UNCHANGED gfVars /\ UNCHANGED geoVars

\* recover(): if( !exists(p) ) { okToCleanUp = true; return; }
RecoverNoDirectory ==
    /\ pc = "idle" /\ gpc = "absent"
    /\ okToCleanUp' = TRUE
    /\ pc' = "done"
    /\ RecoverFrame

\* recover(): if( journalFiles.empty() ) { okToCleanUp = true; return; }
RecoverNoFiles ==
    /\ pc = "idle" /\ gpc = "returned"
    /\ files = << >>
    /\ okToCleanUp' = TRUE
    /\ pc' = "done"
    /\ RecoverFrame

\* recover(): RecoveryJob j; j.go(journalFiles)
RecoverGo ==
    /\ pc = "idle" /\ gpc = "returned"
    /\ files # << >>
    /\ pc' = "go_loop"
    /\ UNCHANGED okToCleanUp
    /\ RecoverFrame

NextGetFiles ==
    \/ GetFilesSkip
    \/ GetFilesDuplicate
    \/ GetFilesNoPredecessor
    \/ GetFilesInsert
    \/ GetFilesReturn
    \/ RecoverNoDirectory
    \/ RecoverNoFiles
    \/ RecoverGo

SpecGetFiles == InitGetFiles /\ [][NextGetFiles]_vars


(***************************************************************************)
(* RecoveryJob::ptr and RecoveryJob::close                                 *)
(***************************************************************************)
Job == [fileToPtr |-> fileToPtr, mfiles |-> mfiles, nmaps |-> nmaps]

SetJob(job) ==
    /\ fileToPtr' = job.fileToPtr
    /\ mfiles' = job.mfiles
    /\ nmaps' = job.nmaps

\* _fileToPtr[key]: 0 when the key is not in the map
Lookup(ftp, key) == IF key \in DOMAIN ftp THEN ftp[key] ELSE 0

Store(ftp, key, p) ==
    [k \in DOMAIN ftp \cup {key} |-> IF k = key THEN p ELSE ftp[k]]

\* the MemoryMappedFile objects of _files that hold a mapping
OpenMaps(mf) == {mf[k].id : k \in 1 .. Len(mf)}

\* ptr(dbName, fileNo, ofs): the job afterwards, the error raised or "none", and
\* the pointer returned: the mapping (the number of its MemoryMappedFile), the file
\* behind it and the offset
Ptr(job, dsk, dbName, fileNo, ofs) ==
    LET key == <<fileNo, dbName>>
        p == Lookup(job.fileToPtr, key)
        name == FileName(dbName, fileNo)
    IN  IF p # 0
        THEN [job |-> job, err |-> "none", map |-> p, name |-> name, ofs |-> ofs]
        ELSE LET id == job.nmaps + 1
                 mapped == dsk[name].exists
                 newp == IF mapped THEN id ELSE 0
                 opened == [fileToPtr |-> Store(job.fileToPtr, key, newp),
                            mfiles |-> Append(job.mfiles, [id |-> id, name |-> name]),
                            nmaps |-> id]
                 err == IF ~mapped THEN "13534"
                        ELSE IF Len(dsk[name].data) = 0 THEN "13543"
                        ELSE IF ~(ofs < Len(dsk[name].data)) THEN "assert"
                        ELSE "none"
             IN  [job |-> opened, err |-> err, map |-> newp, name |-> name, ofs |-> ofs]

\* MongoFile::flushAll(true): the files still to be synced afterwards
FlushAll(d) == {}

\* a close() that forgets _fileToPtr.clear()
CloseKeepsPointers(job) == [job EXCEPT !.mfiles = << >>]

\* close(): _files.clear(); _fileToPtr.clear()
Close(job) == [fileToPtr |-> NoMappings, mfiles |-> << >>, nmaps |-> job.nmaps]

\* a close() that releases the mappings without MongoFile::flushAll(true)
CloseWithoutFlush ==
    /\ dirty' = dirty
    /\ SetJob(Close(Job))

CloseFiles ==
    /\ dirty' = FlushAll(dirty)
    /\ SetJob(Close(Job))

(***************************************************************************)
(* recover() and RecoveryJob::go, from a journal directory that does not   *)
(* exist or from the state getFiles leaves on a well-numbered directory.   *)
(***************************************************************************)
Init ==
    /\ \E n \in 0 .. MaxFiles :
        /\ dir = [k \in 1 .. n |-> [journal |-> TRUE, u |-> k - 1]]
        /\ gpos = n + 1
        /\ m = [u \in 0 .. n - 1 |-> u + 1]
        /\ files = [k \in 1 .. n |-> k]
        /\ gpc \in {"returned", "absent"}
        /\ gpc = "absent" => n = 0
    /\ pc = "idle"
    /\ durScanOnly \in BOOLEAN
    /\ i = 1
    /\ abruptEnd = FALSE
    /\ sectHead = FALSE
    /\ lastDbName = NullPtr
    /\ entries = << >>
    /\ ai = 1
    /\ fileToPtr = NoMappings
    /\ mfiles = << >>
    /\ disk = InitDisk
    /\ dirty = {}
    /\ journalPresent = TRUE
    /\ okToCleanUp = FALSE
    /\ error = "none"
    /\ journal = << >>
    /\ sect = 0
    /\ applied = << >>
    /\ boundary = InitDisk
    /\ nmaps = 0
    /\ IdleGeo

\* the exception leaves go(): the RecoveryJob of recover() is destroyed next
Throw(code) ==
    /\ error' = code
    /\ pc' = "unwind"

\* the token is read from the current journal file
Read(t) == journal' = [journal EXCEPT ![i] = Append(@, t)]
Read2(t1, t2) == journal' = [journal EXCEPT ![i] = Append(Append(@, t1), t2)]

(***************************************************************************)
(* processFile and the JournalIterator constructor                         *)
(***************************************************************************)
\* the file is mapped and its header is good: processBuffer enters its loop
ProcessFileOk ==
    /\ pc = "go_loop" /\ i <= Len(files)
    /\ journal' = Append(journal, <<Header("ok")>>)
    /\ sectHead' = FALSE
    /\ lastDbName' = NullPtr
    /\ entries' = << >>
    /\ sect' = 1
    /\ pc' = "next"
    /\ UNCHANGED <<durScanOnly, i, abruptEnd, ai, fileToPtr, mfiles, disk, dirty,
                   journalPresent, okToCleanUp, error, applied, boundary, nmaps>>
    /\ UNCHANGED gfVars /\ UNCHANGED geoVars

\* massert 13544 (not mapped), BufReader::eof from _br.read(h) outside the try
\* block (file shorter than the header), uassert 13536, uassert 13537
HeaderError(kind) ==
    CASE kind = "nomap" -> "13544"
      [] kind = "short" -> "eof"
      [] kind = "badversion" -> "13536"
      [] kind = "invalid" -> "13537"

ProcessFileFail ==
    /\ pc = "go_loop" /\ i <= Len(files)
    /\ \E kind \in {"nomap", "short", "badversion", "invalid"} :
        /\ journal' = Append(journal, <<Header(kind)>>)
        /\ Throw(HeaderError(kind))
    /\ UNCHANGED <<durScanOnly, i, abruptEnd, sectHead, lastDbName, entries, ai,
                   fileToPtr, mfiles, disk, dirty, journalPresent, okToCleanUp,
                   applied, boundary, nmaps, sect>>
    /\ UNCHANGED gfVars /\ UNCHANGED geoVars

(***************************************************************************)
(* JournalIterator::next                                                   *)
(***************************************************************************)
\* what does not change while the iterator reads
NextFrame ==
    /\ UNCHANGED <<durScanOnly, i, fileToPtr, mfiles, disk, dirty, journalPresent,
                   okToCleanUp, applied, boundary, nmaps, sect>>
    /\ UNCHANGED gfVars /\ UNCHANGED geoVars

\* an iterator that does not look at the local-database flag
EntryDbNameSticky(t, last) == last

\* e.dbName of a basic write or an ObjAppend, given _lastDbName
EntryDbName(t, last) ==
    IF t.op = "Basic" /\ t.local THEN "local" ELSE last

\* the ParsedJournalEntry of a token: kind tells which of e, d and op is set.
\* at (journal file, section, place in the section) and pos (index of the token in
\* the journal file) tell where the entry stands in the journal.
Parsed(t, dbName, at, pos) ==
    [kind |-> CASE t.op = "Basic" -> "e" [] t.op = "ObjAppend" -> "d" [] OTHER -> "op",
     dbName |-> dbName, tok |-> t, at |-> at, pos |-> pos]

\* case OpCode_FileCreated, OpCode_DropDb: e.op = DurOp::read(...); return true
NextDurOp ==
    /\ pc = "next"
    /\ EntryBudget
    /\ \E t \in DurOpTokens :
        /\ Read(t)
        /\ entries' = Append(entries, Parsed(t, NullPtr, <<i, sect, Len(entries) + 1>>,
                                             Len(journal[i]) + 1))
    /\ sectHead' = TRUE
    /\ UNCHANGED <<pc, abruptEnd, lastDbName, ai, error>>
    /\ NextFrame

\* a basic write or an ObjAppend that no JDbContext precedes
NextBasic ==
    /\ pc = "next"
    /\ EntryBudget
    /\ \E t \in BasicTokens \cup ObjAppendTokens :
        /\ Read(t)
        /\ entries' = Append(entries, Parsed(t, EntryDbName(t, lastDbName),
                                             <<i, sect, Len(entries) + 1>>,
                                             Len(journal[i]) + 1))
    /\ sectHead' = TRUE
    /\ UNCHANGED <<pc, abruptEnd, lastDbName, ai, error>>
    /\ NextFrame

\* case OpCode_DbContext: _lastDbName is set, the next word is read and the basic
\* write or ObjAppend that follows is returned
NextContext ==
    /\ pc = "next"
    /\ EntryBudget /\ ContextsRead < MaxContexts
    /\ \E db \in ContextNames, t \in BasicTokens \cup ObjAppendTokens :
        /\ Read2(DbContext(db, 0), t)
        /\ lastDbName' = db
        /\ entries' = Append(entries, Parsed(t, EntryDbName(t, db),
                                             <<i, sect, Len(entries) + 1>>,
                                             Len(journal[i]) + 2))
    /\ sectHead' = TRUE
    /\ UNCHANGED <<pc, abruptEnd, ai, error>>
    /\ NextFrame

\* assert( lenOrOpCode && ... ) fails on a word that is 0
NextZero ==
    /\ pc = "next"
    /\ DamageBudget
    /\ Read(Zero)
    /\ sectHead' = TRUE
    /\ Throw("assert")
    /\ UNCHANGED <<abruptEnd, lastDbName, entries, ai>>
    /\ NextFrame

\* BufReader::eof from a read or skip of next(): caught by processBuffer, which
\* returns true; the entries parsed of the section are dropped
NextEof ==
    /\ pc = "next"
    /\ Read(Eof)
    /\ sectHead' = TRUE
    /\ abruptEnd' = TRUE
    /\ pc' = "go_check"
    /\ UNCHANGED <<lastDbName, entries, ai, error>>
    /\ NextFrame

\* case OpCode_Footer, the hash matches: _sectHead = NULL; return false.
\* processBuffer goes on to applyEntries(entries)
NextFooter ==
    /\ pc = "next"
    /\ FootersRead < MaxSections
    /\ \E h \in 0 .. HashMod - 1 :
        /\ HashChecked(Footer(h, 0), SectionTokens(journal[i]))
        /\ Read(Footer(h, 0))
    /\ sectHead' = FALSE
    /\ ai' = 1
    /\ pc' = "apply"
    /\ UNCHANGED <<abruptEnd, lastDbName, entries, error>>
    /\ NextFrame

\* the hash does not match: massert 13594
NextFooterMismatch ==
    /\ pc = "next"
    /\ \E h \in 0 .. HashMod - 1 :
        /\ ~HashChecked(Footer(h, 0), SectionTokens(journal[i]))
        /\ Read(Footer(h, 0))
    /\ sectHead' = TRUE
    /\ Throw("13594")
    /\ UNCHANGED <<abruptEnd, lastDbName, entries, ai>>
    /\ NextFrame

\* the hash matches and the file ends before the end of the footer:
\* _br.skip(sizeof(JSectFooter) - 4) throws BufReader::eof
NextFooterShort ==
    /\ pc = "next"
    /\ DamageBudget
    /\ \E h \in 0 .. HashMod - 1 :
        /\ CheckHash(Footer(h, 2), SectionTokens(journal[i]))
        /\ Read(Footer(h, 2))
    /\ sectHead' = TRUE
    /\ abruptEnd' = TRUE
    /\ pc' = "go_check"
    /\ UNCHANGED <<lastDbName, entries, ai, error>>
    /\ NextFrame

\* The file ends inside the hash field of the footer: only the opcode word was
\* read through the BufReader, footer.checkHash reads the hash past the end of the
\* buffer.  What is read there is not defined: the hash does not match (13594), it
\* matches (then the skip throws BufReader::eof), or the read faults.
NextFooterCutMismatch ==
    /\ pc = "next"
    /\ DamageBudget
    /\ Read(Footer(0, 1))
    /\ sectHead' = TRUE
    /\ Throw("13594")
    /\ UNCHANGED <<abruptEnd, lastDbName, entries, ai>>
    /\ NextFrame

NextFooterCutMatch ==
    /\ pc = "next"
    /\ DamageBudget
    /\ Read(Footer(0, 1))
    /\ sectHead' = TRUE
    /\ abruptEnd' = TRUE
    /\ pc' = "go_check"
    /\ UNCHANGED <<lastDbName, entries, ai, error>>
    /\ NextFrame

NextFooterCutFault ==
    /\ pc = "next"
    /\ DamageBudget
    /\ Read(Footer(0, 1))
    /\ sectHead' = TRUE
    /\ pc' = "crashed"
    /\ UNCHANGED <<abruptEnd, lastDbName, entries, ai, error>>
    /\ NextFrame

\* The file ends inside the name of a JDbContext: strnlen stops at the end of the
\* buffer and _lastDbName[len] is the byte after it.  What is read there is not
\* defined: a 0 (then _br.skip(len+1) throws BufReader::eof), another byte
\* (massert 13533), or the read faults.
NextContextCutEof ==
    /\ pc = "next"
    /\ DamageBudget /\ ContextsRead < MaxContexts
    /\ \E db \in {"a"} :
        /\ Read(DbContext(db, 1))
        /\ lastDbName' = db
    /\ sectHead' = TRUE
    /\ abruptEnd' = TRUE
    /\ pc' = "go_check"
    /\ UNCHANGED <<entries, ai, error>>
    /\ NextFrame

NextContextCutBad ==
    /\ pc = "next"
    /\ DamageBudget /\ ContextsRead < MaxContexts
    /\ \E db \in {"a"} :
        /\ Read(DbContext(db, 1))
        /\ lastDbName' = db
    /\ sectHead' = TRUE
    /\ Throw("13533")
    /\ UNCHANGED <<abruptEnd, entries, ai>>
    /\ NextFrame

NextContextCutFault ==
    /\ pc = "next"
    /\ DamageBudget /\ ContextsRead < MaxContexts
    /\ \E db \in {"a"} :
        /\ Read(DbContext(db, 1))
        /\ lastDbName' = db
    /\ sectHead' = TRUE
    /\ pc' = "crashed"
    /\ UNCHANGED <<abruptEnd, entries, ai, error>>
    /\ NextFrame

(***************************************************************************)
(* RecoveryJob::applyEntries and RecoveryJob::applyEntry                   *)
(***************************************************************************)
\* what does not change while a section is applied
ApplyFrame ==
    /\ UNCHANGED <<durScanOnly, i, abruptEnd, sectHead, lastDbName, entries,
                   journalPresent, okToCleanUp, journal, sect, boundary>>
    /\ UNCHANGED gfVars /\ UNCHANGED geoVars

\* entry.e->getFileNo(): the file number without the LocalDbBit
GetFileNo(t) == t.fileNo

\* an element of applied: the entry, the mapping written through (0: none), the
\* file written and the file read (an ObjAppend), whether a DurOp declared
\* needFilesClosed, and the number of MemoryMappedFile objects created until then
Applied(e, map, name, src, needClosed, n) ==
    [at |-> e.at, e |-> e, map |-> map, name |-> name, src |-> src,
     needClosed |-> needClosed, nmaps |-> n]

NoFile == <<"", "">>

\* a loop that walks the vector backwards
EntryAtReversed(es, k) == es[Len(es) + 1 - k]

\* *i of the loop of applyEntries
EntryAt(es, k) == es[k]

\* applyEntry throws: the loop of applyEntries has no handler, the exception
\* leaves applyEntries, processBuffer (which catches BufReader::eof only) and go
EntryThrows(code) ==
    /\ error' = code
    /\ pc' = "unwind"
    /\ ai' = ai

\* bool apply = (cmdLine.durOptions & CmdLine::DurScanOnly) == 0
\* an applyEntries that does not look at DurScanOnly
ApplyAlways == TRUE

ApplyFlag == ~durScanOnly

\* memcpy(p, entry.e->srcData(), entry.e->len)
BasicWriteTo(dsk, r, t) == WriteBytes(dsk, r.name, r.ofs, t.data)

\* an ObjAppend that leaves the byte after the copy as it is
ObjAppendNoMarker(dsk, dst, src, t) ==
    WriteBytes(dsk, dst.name, dst.ofs - 3,
               <<Object, LetterO, 0>> \o ReadBytes(dsk, src.name, src.ofs, t.len))

\* memcpy(dst, src, len); p[-3] = Object; p[-2] = 'o'; p[-1] = 0; p[len] = EOO
ObjAppendTo(dsk, dst, src, t) ==
    WriteBytes(dsk, dst.name, dst.ofs - 3,
               <<Object, LetterO, 0>> \o ReadBytes(dsk, src.name, src.ofs, t.len) \o <<EOO>>)

\* DurOp::needFilesClosed(): DropDbOp always, FileCreatedOp when the file exists
NeedFilesClosed(t, dsk) ==
    IF t.op = "DropDb" THEN TRUE ELSE dsk[FileName(t.db, t.fileNo)].exists

\* DurOp::replay(): DropDbOp removes the files of the database, FileCreatedOp
\* replaces the file by one of len zero bytes
Replay(t, dsk) ==
    IF t.op = "DropDb"
    THEN [name \in DOMAIN dsk |->
            IF name[1] = t.db THEN [exists |-> FALSE, data |-> << >>] ELSE dsk[name]]
    ELSE [dsk EXCEPT ![FileName(t.db, t.fileNo)] =
            [exists |-> TRUE, data |-> [k \in 1 .. t.len |-> 0]]]

\* with apply false (scan only) applyEntry does nothing with the entry
ApplySkip ==
    /\ pc = "apply" /\ ai <= Len(entries)
    /\ ~ApplyFlag
    /\ ai' = ai + 1
    /\ UNCHANGED <<pc, error, fileToPtr, mfiles, nmaps, disk, dirty, applied>>
    /\ ApplyFrame

\* if( entry.e ): the pointer is obtained and the payload copied
ApplyBasic ==
    /\ pc = "apply" /\ ai <= Len(entries)
    /\ ApplyFlag
    /\ EntryAt(entries, ai).kind = "e" /\ EntryAt(entries, ai).dbName # NullPtr
    /\ LET e == EntryAt(entries, ai)
           r == Ptr(Job, disk, e.dbName, GetFileNo(e.tok), e.tok.ofs)
       IN  /\ r.err = "none"
           /\ SetJob(r.job)
           /\ disk' = BasicWriteTo(disk, r, e.tok)
           /\ dirty' = dirty \cup {r.name}
           /\ applied' = Append(applied, Applied(e, r.map, r.name, NoFile, FALSE, r.job.nmaps))
    /\ ai' = ai + 1
    /\ UNCHANGED <<pc, error>>
    /\ ApplyFrame

\* ptr() raises 13534, 13543 or fails its assertion: nothing is copied
ApplyBasicFail ==
    /\ pc = "apply" /\ ai <= Len(entries)
    /\ ApplyFlag
    /\ EntryAt(entries, ai).kind = "e" /\ EntryAt(entries, ai).dbName # NullPtr
    /\ LET e == EntryAt(entries, ai)
           r == Ptr(Job, disk, e.dbName, GetFileNo(e.tok), e.tok.ofs)
       IN  /\ r.err # "none"
           /\ SetJob(r.job)
           /\ EntryThrows(r.err)
    /\ UNCHANGED <<disk, dirty, applied>>
    /\ ApplyFrame

\* else if( entry.d ): dst = ptr("local", ...); src = ptr(entry.dbName, ...)
ApplyObjAppend ==
    /\ pc = "apply" /\ ai <= Len(entries)
    /\ ApplyFlag
    /\ EntryAt(entries, ai).kind = "d" /\ EntryAt(entries, ai).dbName # NullPtr
    /\ LET e == EntryAt(entries, ai)
           dst == Ptr(Job, disk, "local", e.tok.dstFileNo, e.tok.dstOfs)
           src == Ptr(dst.job, disk, e.dbName, e.tok.srcFileNo, e.tok.srcOfs)
       IN  /\ dst.err = "none" /\ src.err = "none"
           /\ SetJob(src.job)
           /\ disk' = ObjAppendTo(disk, dst, src, e.tok)
           /\ dirty' = dirty \cup {dst.name}
           /\ applied' = Append(applied, Applied(e, dst.map, dst.name, src.name, FALSE,
                                                  src.job.nmaps))
    /\ ai' = ai + 1
    /\ UNCHANGED <<pc, error>>
    /\ ApplyFrame

\* ptr("local", ...) throws, whatever entry.dbName is, or it returns and
\* ptr(entry.dbName, ...) throws: nothing is copied
ApplyObjAppendFail ==
    /\ pc = "apply" /\ ai <= Len(entries)
    /\ ApplyFlag
    /\ EntryAt(entries, ai).kind = "d"
    /\ LET e == EntryAt(entries, ai)
           dst == Ptr(Job, disk, "local", e.tok.dstFileNo, e.tok.dstOfs)
       IN  IF dst.err # "none"
           THEN /\ SetJob(dst.job)
                /\ EntryThrows(dst.err)
           ELSE /\ e.dbName # NullPtr
                /\ LET src == Ptr(dst.job, disk, e.dbName, e.tok.srcFileNo, e.tok.srcOfs)
                   IN  /\ src.err # "none"
                       /\ SetJob(src.job)
                       /\ EntryThrows(src.err)
    /\ UNCHANGED <<disk, dirty, applied>>
    /\ ApplyFrame

\* The entry is a basic write or an ObjAppend source that no JDbContext of the
\* file precedes: entry.dbName is 0 and ptr() builds a std::string from it, which
\* is not defined: the library throws std::logic_error, or the read faults.  For
\* an ObjAppend, ptr("local", ...) has been called before and has returned.
NullNameReached ==
    LET e == EntryAt(entries, ai)
    IN  /\ e.kind \in {"e", "d"} /\ e.dbName = NullPtr
        /\ e.kind = "d" =>
              Ptr(Job, disk, "local", e.tok.dstFileNo, e.tok.dstOfs).err = "none"

NullNameJob ==
    LET e == EntryAt(entries, ai)
    IN  IF e.kind = "d"
        THEN Ptr(Job, disk, "local", e.tok.dstFileNo, e.tok.dstOfs).job
        ELSE Job

ApplyNullNameThrow ==
    /\ pc = "apply" /\ ai <= Len(entries)
    /\ ApplyFlag
    /\ NullNameReached
    /\ SetJob(NullNameJob)
    /\ EntryThrows("logic_error")
    /\ UNCHANGED <<disk, dirty, applied>>
    /\ ApplyFrame

ApplyNullNameFault ==
    /\ pc = "apply" /\ ai <= Len(entries)
    /\ ApplyFlag
    /\ NullNameReached
    /\ SetJob(NullNameJob)
    /\ pc' = "crashed"
    /\ UNCHANGED <<ai, disk, dirty, applied, error>>
    /\ ApplyFrame

\* a DurOp: if( entry.op->needFilesClosed() ) close();
ApplyOpClose ==
    /\ pc = "apply" /\ ai <= Len(entries)
    /\ ApplyFlag
    /\ EntryAt(entries, ai).kind = "op"
    /\ IF NeedFilesClosed(EntryAt(entries, ai).tok, disk)
       THEN CloseFiles
       ELSE UNCHANGED <<fileToPtr, mfiles, nmaps, dirty>>
    /\ pc' = "replay"
    /\ UNCHANGED <<ai, error, disk, applied>>
    /\ ApplyFrame

\* entry.op->replay()
ApplyOpReplay ==
    /\ pc = "replay"
    /\ disk' = Replay(EntryAt(entries, ai).tok, disk)
    /\ applied' = Append(applied,
                         Applied(EntryAt(entries, ai), 0, NoFile, NoFile,
                                 NeedFilesClosed(EntryAt(entries, ai).tok, disk), nmaps))
    /\ ai' = ai + 1
    /\ pc' = "apply"
    /\ UNCHANGED <<error, fileToPtr, mfiles, nmaps, dirty>>
    /\ ApplyFrame

(***************************************************************************)
(* RecoveryJob::processBuffer after applyEntries                           *)
(***************************************************************************)
\* applyEntries returns
ApplyEntriesDone ==
    /\ pc = "apply" /\ ai > Len(entries)
    /\ boundary' = disk
    /\ pc' = "section_done"
    /\ UNCHANGED <<durScanOnly, i, abruptEnd, sectHead, lastDbName, entries, ai,
                   fileToPtr, mfiles, disk, dirty, journalPresent, okToCleanUp, error,
                   journal, sect, applied, nmaps>>
    /\ UNCHANGED gfVars /\ UNCHANGED geoVars

\* if( i.atEof() ) break; ... return false
SectionEndOfFile ==
    /\ pc = "section_done"
    /\ Read(End)
    /\ abruptEnd' = FALSE
    /\ pc' = "go_check"
    /\ UNCHANGED <<durScanOnly, i, sectHead, lastDbName, entries, ai, fileToPtr,
                   mfiles, disk, dirty, journalPresent, okToCleanUp, error, sect,
                   applied, boundary, nmaps>>
    /\ UNCHANGED gfVars /\ UNCHANGED geoVars

\* loop back and do the next group commit section: entries.clear()
SectionLoop ==
    /\ pc = "section_done"
    /\ entries' = << >>
    /\ sect' = sect + 1
    /\ pc' = "next"
    /\ UNCHANGED <<durScanOnly, i, abruptEnd, sectHead, lastDbName, ai, fileToPtr,
                   mfiles, disk, dirty, journalPresent, okToCleanUp, error, journal,
                   applied, boundary, nmaps>>
    /\ UNCHANGED gfVars /\ UNCHANGED geoVars

(***************************************************************************)
(* RecoveryJob::go and ~RecoveryJob                                        *)
(***************************************************************************)
GoFrame ==
    /\ UNCHANGED <<durScanOnly, sectHead, lastDbName, entries, ai, disk, journal,
                   sect, applied, boundary>>
    /\ UNCHANGED gfVars /\ UNCHANGED geoVars

\* the test of go() with one file too many taken for the last
AbruptNotLastOffByOne(abrupt, idx, size) == abrupt /\ idx + 1 < size

\* if( abruptEnd && i+1 < files.size() ), with i counted from 1
AbruptNotLast(abrupt, idx, size) == abrupt /\ idx < size

\* close(); uasserted(13535)
GoAbruptNotLast ==
    /\ pc = "go_check"
    /\ AbruptNotLast(abruptEnd, i, Len(files))
    /\ CloseFiles
    /\ Throw("13535")
    /\ UNCHANGED <<i, abruptEnd, journalPresent, okToCleanUp>>
    /\ GoFrame

\* ++i
GoNextFile ==
    /\ pc = "go_check"
    /\ ~AbruptNotLast(abruptEnd, i, Len(files))
    /\ i' = i + 1
    /\ pc' = "go_loop"
    /\ UNCHANGED <<abruptEnd, fileToPtr, mfiles, nmaps, dirty, journalPresent,
                   okToCleanUp, error>>
    /\ GoFrame

\* a go() that forgets the close() after the loop
GoWithoutClose ==
    /\ pc = "go_loop" /\ i > Len(files)
    /\ pc' = "go_scan"
    /\ UNCHANGED <<i, abruptEnd, fileToPtr, mfiles, nmaps, dirty, journalPresent,
                   okToCleanUp, error>>
    /\ GoFrame

\* after the loop: close()
GoClose ==
    /\ pc = "go_loop" /\ i > Len(files)
    /\ CloseFiles
    /\ pc' = "go_scan"
    /\ UNCHANGED <<i, abruptEnd, journalPresent, okToCleanUp, error>>
    /\ GoFrame

\* if( cmdLine.durOptions & CmdLine::DurScanOnly ) uasserted(13545)
GoScanOnly ==
    /\ pc = "go_scan"
    /\ durScanOnly
    /\ Throw("13545")
    /\ UNCHANGED <<i, abruptEnd, fileToPtr, mfiles, nmaps, dirty, journalPresent,
                   okToCleanUp>>
    /\ GoFrame

\* removeJournalFiles()
GoRemoveJournalFiles ==
    /\ pc = "go_scan"
    /\ ~durScanOnly
    /\ journalPresent' = FALSE
    /\ pc' = "go_ok"
    /\ UNCHANGED <<i, abruptEnd, fileToPtr, mfiles, nmaps, dirty, okToCleanUp, error>>
    /\ GoFrame

\* okToCleanUp = true
GoOkToCleanUp ==
    /\ pc = "go_ok"
    /\ okToCleanUp' = TRUE
    /\ pc' = "return"
    /\ UNCHANGED <<i, abruptEnd, fileToPtr, mfiles, nmaps, dirty, journalPresent, error>>
    /\ GoFrame

\* ~RecoveryJob(), as go() returns or an exception leaves recover():
\* if( !_files.empty() ) close()
Destroy ==
    /\ pc \in {"return", "unwind"}
    /\ IF mfiles # << >>
       THEN CloseFiles
       ELSE UNCHANGED <<fileToPtr, mfiles, nmaps, dirty>>
    /\ pc' = "done"
    /\ UNCHANGED <<i, abruptEnd, journalPresent, okToCleanUp, error>>
    /\ GoFrame

Next ==
    \/ RecoverNoDirectory
    \/ RecoverNoFiles
    \/ RecoverGo
    \/ ProcessFileOk
    \/ ProcessFileFail
    \/ NextDurOp
    \/ NextBasic
    \/ NextContext
    \/ NextZero
    \/ NextEof
    \/ NextFooter
    \/ NextFooterMismatch
    \/ NextFooterShort
    \/ NextFooterCutMismatch
    \/ NextFooterCutMatch
    \/ NextFooterCutFault
    \/ NextContextCutEof
    \/ NextContextCutBad
    \/ NextContextCutFault
    \/ ApplySkip
    \/ ApplyBasic
    \/ ApplyBasicFail
    \/ ApplyObjAppend
    \/ ApplyObjAppendFail
    \/ ApplyNullNameThrow
    \/ ApplyNullNameFault
    \/ ApplyOpClose
    \/ ApplyOpReplay
    \/ ApplyEntriesDone
    \/ SectionEndOfFile
    \/ SectionLoop
    \/ GoAbruptNotLast
    \/ GoNextFile
    \/ GoClose
    \/ GoScanOnly
    \/ GoRemoveJournalFiles
    \/ GoOkToCleanUp
    \/ Destroy

Spec == Init /\ [][Next]_vars

(***************************************************************************)
(* SpecExtent: recovery of a journal whose writes may reach beyond the     *)
(* destination file.  The store of memcpy or of the ObjAppend stamps to an *)
(* address outside the mapping is not defined: it lands in whatever lies   *)
(* next to the mapping (the file gets the part inside it), or it faults,   *)
(* with the part inside the mapping written or not.                        *)
(***************************************************************************)
\* a basic write whose last byte lies past the end of the file, one that begins
\* at the end of the file, an ObjAppend whose preamble begins before the file,
\* one whose end marker lies past its end and one that begins at its end
BeyondTokens ==
    { BasicWrite(TRUE, 0, FileLen - 1, <<76, 77>>),
      BasicWrite(TRUE, 0, FileLen, <<78>>),
      ObjAppend(0, 1, 0, 2, 1),
      ObjAppend(0, 1, 0, FileLen - 1, 1),
      ObjAppend(0, 1, 0, FileLen, 1) }

\* the first offset and the number of bytes applyEntry stores for an entry:
\* memcpy(p, ..., len) at ofs; p[-3] .. p[len] at dstOfs
StoreOfs(t) == IF t.op = "Basic" THEN t.ofs ELSE t.dstOfs - 3
StoreLen(t) == IF t.op = "Basic" THEN Len(t.data) ELSE t.len + 4

\* JournalIterator::next returns a basic write or an ObjAppend of BeyondTokens
NextBeyond ==
    /\ pc = "next"
    /\ EntryBudget
    /\ \E t \in BeyondTokens :
        /\ Read(t)
        /\ entries' = Append(entries, Parsed(t, EntryDbName(t, lastDbName),
                                             <<i, sect, Len(entries) + 1>>,
                                             Len(journal[i]) + 1))
    /\ sectHead' = TRUE
    /\ UNCHANGED <<pc, abruptEnd, lastDbName, ai, error>>
    /\ NextFrame

\* the pointers applyEntry obtains for the entry: the destination and, for an
\* ObjAppend, the job after the source was obtained too
EntryPtrs(e) ==
    IF e.kind = "e"
    THEN [dst |-> Ptr(Job, disk, e.dbName, GetFileNo(e.tok), e.tok.ofs),
          last |-> Ptr(Job, disk, e.dbName, GetFileNo(e.tok), e.tok.ofs)]
    ELSE [dst |-> Ptr(Job, disk, "local", e.tok.dstFileNo, e.tok.dstOfs),
          last |-> Ptr(Ptr(Job, disk, "local", e.tok.dstFileNo, e.tok.dstOfs).job,
                       disk, e.dbName, e.tok.srcFileNo, e.tok.srcOfs)]

\* the stores of applyEntry as the code lists them, each with the offset it
\* begins at: memcpy(p, ...) for a basic write; memcpy(dst, src, len), p[-3],
\* p[-2], p[-1] and p[len] for an ObjAppend
Stores(e, r) ==
    IF e.kind = "e"
    THEN << [ofs |-> e.tok.ofs, bytes |-> e.tok.data] >>
    ELSE << [ofs |-> e.tok.dstOfs,
             bytes |-> ReadBytes(disk, r.last.name, r.last.ofs, e.tok.len)],
            [ofs |-> e.tok.dstOfs - 3, bytes |-> <<Object>>],
            [ofs |-> e.tok.dstOfs - 2, bytes |-> <<LetterO>>],
            [ofs |-> e.tok.dstOfs - 1, bytes |-> <<0>>],
            [ofs |-> e.tok.dstOfs + e.tok.len, bytes |-> <<EOO>>] >>

\* the files after those of the first n stores that are in done
RECURSIVE Stored(_, _, _, _)
Stored(stores, name, done, n) ==
    IF n = 0 THEN disk
    ELSE IF n \in done
    THEN WriteBytes(Stored(stores, name, done, n - 1), name, stores[n].ofs, stores[n].bytes)
    ELSE Stored(stores, name, done, n - 1)

\* a store of applyEntry outside the mapping faults. Of the bytes of the
\* memcpy the part inside the mapping is written or not; the stores after the
\* memcpy are single bytes that the build makes in an order of its own, so
\* when one of them faults the memcpy is done and any of the others may be
Faults(e, r) ==
    /\ r.dst.err = "none" /\ r.last.err = "none"
    /\ SetJob(r.last.job)
    /\ \E k \in 1 .. Len(Stores(e, r)), done \in SUBSET (1 .. Len(Stores(e, r))) :
        /\ ~InExtent(disk, r.dst.name, Stores(e, r)[k].ofs, Len(Stores(e, r)[k].bytes))
        /\ IF k = 1 THEN done \subseteq {1} ELSE 1 \in done
        /\ disk' = Stored(Stores(e, r), r.dst.name, done, Len(Stores(e, r)))
        /\ dirty' = IF k = 1 /\ disk' = disk THEN dirty ELSE dirty \cup {r.dst.name}
ApplyBeyondFault ==
    /\ pc = "apply" /\ ai <= Len(entries)
    /\ ApplyFlag
    /\ EntryAt(entries, ai).kind \in {"e", "d"} /\ EntryAt(entries, ai).dbName # NullPtr
    /\ Faults(EntryAt(entries, ai), EntryPtrs(EntryAt(entries, ai)))
    /\ pc' = "crashed"
    /\ UNCHANGED <<ai, applied, error>>
    /\ ApplyFrame

InitExtent ==
    /\ Init
    /\ Len(dir) = 1
    /\ ~durScanOnly

NextExtent ==
    \/ RecoverGo
    \/ ProcessFileOk
    \/ NextBasic
    \/ NextContext
    \/ NextBeyond
    \/ NextFooter
    \/ NextEof
    \/ ApplyBasic
    \/ ApplyBasicFail
    \/ ApplyObjAppend
    \/ ApplyObjAppendFail
    \/ ApplyBeyondFault
    \/ ApplyNullNameThrow
    \/ ApplyNullNameFault
    \/ ApplyEntriesDone
    \/ SectionEndOfFile
    \/ SectionLoop
    \/ GoNextFile
    \/ GoClose
    \/ GoRemoveJournalFiles
    \/ GoOkToCleanUp
    \/ Destroy

SpecExtent == InitExtent /\ [][NextExtent]_vars

(***************************************************************************)
(* The 2d index (src/db/geo/2d.cpp).                                       *)
(*                                                                         *)
(* Coordinates are integers of [GeoMin, GeoMax); a cell of the finest      *)
(* level is CellUnits wide, so that a location may lie anywhere in its     *)
(* cell and on its border.  A distance is kept as its square (the square   *)
(* root is monotone); a comparison with a sum of distances is decided      *)
(* exactly by RootLeqSum and SumLeqRoot.  Only the planar distance type    *)
(* (GEO_PLAIN) is modelled.                                                *)
(*                                                                         *)
(* Three specifications are given:                                         *)
(*   SpecHopper  GeoHopper::add called with the keys of the index in any   *)
(*               order;                                                    *)
(*   SpecNear    GeoSearch::exec, one step per call;                       *)
(*   SpecBrowse  a circle or box cursor: its construction, ok(),           *)
(*               advance() and fillStack(), one step per call.             *)
(***************************************************************************)
\* Geo2dType::_bits: bits per axis of a geohash
GeoBits == 3
\* exact coordinates per edge of a cell of the finest level
CellUnits == 4
\* Geo2dType::_min
GeoMin == 0
\* Geo2dType::_max
GeoMax == GeoMin + (2 ^ GeoBits) * CellUnits

Abs(v) == IF v < 0 THEN 0 - v ELSE v

\* sqrt(n) <= sqrt(a) + sqrt(b)
RootLeqSum(n, a, b) == n <= a + b \/ (n - a - b) * (n - a - b) <= 4 * a * b
\* sqrt(a) + sqrt(b) <= sqrt(n)
SumLeqRoot(a, b, n) == n >= a + b /\ 4 * a * b <= (n - a - b) * (n - a - b)

\* Point::distance, squared
DistanceSq(p, q) == (p.x - q.x) * (p.x - q.x) + (p.y - q.y) * (p.y - q.y)
\* Point::distanceWithin( p, maxDistance )
DistanceWithin(p, q, maxDistance) == DistanceSq(p, q) <= maxDistance

\* _convert followed by the cut to _bits bits that GeoHash( x, y, _bits ) makes
Convert(in) == (in - GeoMin) \div CellUnits
\* Geo2dType::hash( x, y )
Hash(p) == [x |-> Convert(p.x), y |-> Convert(p.y), bits |-> GeoBits]
\* GeoHash::up
Up(h) == [x |-> h.x \div 2, y |-> h.y \div 2, bits |-> h.bits - 1]
\* GeoHash::constrains
Constrains(h) == h.bits > 0
\* GeoHash::move: each axis moves by one cell and wraps
Move(h, dx, dy) ==
    [x |-> (h.x + dx) % (2 ^ h.bits), y |-> (h.y + dy) % (2 ^ h.bits), bits |-> h.bits]
\* GeoHash::hasPrefix
HasPrefix(h, p) ==
    /\ h.bits >= p.bits
    /\ h.x \div (2 ^ (h.bits - p.bits)) = p.x
    /\ h.y \div (2 ^ (h.bits - p.bits)) = p.y
\* GeoHash::operator+ of a hash and the two bits "xy": the part (bx, by) of
\* the cell, one level down
Child(h, bx, by) == [x |-> 2 * h.x + bx, y |-> 2 * h.y + by, bits |-> h.bits + 1]
\* the bits of the longest hash made: doBox goes two levels below a cell of
\* the finest level
DeepBits == GeoBits + 2
\* GeoHash( e ) of the element of a key: the hash with every bit of the word,
\* those past the bits of the index zero
KeyHash(h) ==
    [x |-> h.x * (2 ^ (DeepBits - h.bits)), y |-> h.y * (2 ^ (DeepBits - h.bits)),
     bits |-> DeepBits]
\* the value of the interleaved bits XYXY.. of a hash, the order of the index keys
RECURSIVE Interleave(_, _, _)
Interleave(x, y, bits) ==
    IF bits = 0 THEN 0
    ELSE 4 * Interleave(x \div 2, y \div 2, bits - 1) + 2 * (x % 2) + (y % 2)
\* GeoHash::wrap: the key of a hash, unused low bits zero
Wrap(h) == Interleave(h.x, h.y, h.bits) * (4 ^ (DeepBits - h.bits))

\* Geo2dType::unhash: _unconvert of each axis
Unhash(h) ==
    IF h.bits <= GeoBits
    THEN [x |-> GeoMin + h.x * CellUnits * (2 ^ (GeoBits - h.bits)),
          y |-> GeoMin + h.y * CellUnits * (2 ^ (GeoBits - h.bits))]
    ELSE [x |-> GeoMin + (h.x * CellUnits) \div (2 ^ (h.bits - GeoBits)),
          y |-> GeoMin + (h.y * CellUnits) \div (2 ^ (h.bits - GeoBits))]
\* Geo2dType::sizeEdge
SizeEdge(a) ==
    LET ax == Unhash(a).x
        bx == Unhash(Move(a, 1, 1)).x
    IN  Abs(ax - (IF bx = GeoMin THEN GeoMax ELSE bx))
\* Geo2dType::_error, squared: the diagonal of a cell of the finest level
ErrorSq ==
    LET a == [x |-> 0, y |-> 0, bits |-> GeoBits]
    IN  DistanceSq(Unhash(a), Unhash(Move(a, 1, 1)))

\* Box( g, hash )
BoxOf(h) ==
    [min |-> Unhash(h),
     max |-> [x |-> Unhash(h).x + SizeEdge(h), y |-> Unhash(h).y + SizeEdge(h)]]
\* Box::area
Area(b) == (b.max.x - b.min.x) * (b.max.y - b.min.y)
\* Box::between with no fudge
Between(min, max, val) == val >= min /\ val <= max
\* Box::inside with no fudge
Inside(b, p) == Between(b.min.x, b.max.x, p.x) /\ Between(b.min.y, b.max.y, p.y)
\* Box::contains with no fudge
Contains(b, other) == Inside(b, other.min) /\ Inside(b, other.max)

(***************************************************************************)
(* The indexed collection and its ordered tree.                            *)
(***************************************************************************)
Points == [x : GeoMin .. GeoMax - 1, y : GeoMin .. GeoMax - 1]

\* Geo2dType::getKeys: one key per location, equal keys of a document once
GetKeys(docs) ==
    UNION {{[key |-> Hash(l), recordLoc |-> d] : l \in docs[d].locs} : d \in DOMAIN docs}

KeyBefore(a, b) ==
    \/ Wrap(a.key) < Wrap(b.key)
    \/ Wrap(a.key) = Wrap(b.key) /\ a.recordLoc < b.recordLoc

\* the keys in the order of the tree
RECURSIVE Btree(_)
Btree(S) ==
    IF S = {} THEN << >>
    ELSE LET least == CHOOSE a \in S : \A b \in S \ {a} : KeyBefore(a, b)
         IN  <<least>> \o Btree(S \ {least})

\* BtreeBucket::locate: the last key before the hash (direction -1), the first
\* key not before it (direction 1); 0 is the null bucket
Locate(start, direction) ==
    LET tree == index.tree
        below == {k \in 1 .. Len(tree) : Wrap(tree[k].key) < Wrap(start)}
    IN  IF direction < 0
        THEN Cardinality(below)
        ELSE IF Cardinality(below) = Len(tree) THEN 0 ELSE Cardinality(below) + 1

\* BtreeLocation::hasPrefix
LocHasPrefix(pos, hash) == pos # 0 /\ HasPrefix(KeyHash(index.tree[pos].key), hash)

\* BtreeBucket::advance: the next slot in the direction, 0 past either end
BtreeAdvance(pos, direction) ==
    IF pos = 0 \/ pos + direction < 1 \/ pos + direction > Len(index.tree)
    THEN 0 ELSE pos + direction

(***************************************************************************)
(* GeoAccumulator and GeoHopper.  An accumulator is a record; seen holds   *)
(* positions of the tree (a key's data pointer and record locator name one *)
(* slot), matched maps the record locators judged so far to the verdict.   *)
(***************************************************************************)
NoVerdicts == << >>

\* an insert that keeps no order: the new point goes first
InsertFirst(points, p) == <<p>> \o points

\* multiset<GeoPoint>::insert: after the points that are not farther
RECURSIVE Insert(_, _)
Insert(points, p) ==
    IF points = << >> THEN <<p>>
    ELSE IF p.exactDistance < points[1].exactDistance THEN <<p>> \o points
    ELSE <<points[1]>> \o Insert(Tail(points), p)

\* GeoHopper( g, max, n, filter, maxDistance ).  undefined: the element before
\* end() of an empty holder was read, which the language does not define: the
\* decrement of end() follows the parent pointer of the header of the empty
\* tree, which is null, and the process ends there
NewHopper(max, near, maxDistance) ==
    [kind |-> "hopper", seen |-> {}, matched |-> NoVerdicts, found |-> 0,
     max |-> max, near |-> near, maxDistance |-> maxDistance,
     points |-> << >>, farthest |-> 0, undefined |-> FALSE]

\* GeoHopper::approxDistance, squared
ApproxDistance(a, node) == DistanceSq(a.near, Unhash(node.key))

\* GeoHopper::checkDistance
HopperCheckDistance(a, node) ==
    LET d == ApproxDistance(a, node)
    IN  /\ RootLeqSum(d, a.maxDistance, 4 * ErrorSq)
        /\ \/ Len(a.points) < a.max
           \/ RootLeqSum(d, a.farthest, 4 * ErrorSq)

\* the largest exact distance over the locations within maxDistance, instead
\* of the least
MaxDistanceWithin(a, node) ==
    LET within == {l \in index.docs[node.recordLoc].locs :
                      DistanceWithin(a.near, l, a.maxDistance)}
    IN  IF within = {} THEN -1
        ELSE CHOOSE d \in {DistanceSq(a.near, l) : l \in within} :
                 \A l \in within : d >= DistanceSq(a.near, l)

\* GeoHopper::exactDistances: the least exact distance over the locations of the
\* document that lie within maxDistance, -1 when there is none
MinDistance(a, node) ==
    LET within == {l \in index.docs[node.recordLoc].locs :
                      DistanceWithin(a.near, l, a.maxDistance)}
    IN  IF within = {} THEN -1
        ELSE CHOOSE d \in {DistanceSq(a.near, l) : l \in within} :
                 \A l \in within : d <= DistanceSq(a.near, l)

ExactDistances(a, node) ==
    IF MinDistance(a, node) >= 0
    THEN [a EXCEPT !.points =
             Insert(@, [loc |-> node.recordLoc, exactDistance |-> MinDistance(a, node)])]
    ELSE a

\* an erase that takes, of the points tied at the largest distance, the first
EraseOldestTied(a) ==
    IF Len(a.points) > a.max
    THEN [a EXCEPT !.points =
             SubSeq(SelectSeq(@, LAMBDA p : p.exactDistance # a.points[Len(a.points)].exactDistance)
                    \o Tail(SelectSeq(@, LAMBDA p : p.exactDistance = a.points[Len(a.points)].exactDistance)),
                    1, a.max)]
    ELSE a

\* while( numToErase-- > 0 ) _points.erase( --_points.end() );
Erase(a) ==
    IF Len(a.points) > a.max THEN [a EXCEPT !.points = SubSeq(@, 1, a.max)] ELSE a

\* _farthest = boost::next( _points.end(), -1 )->_exactDistance;
Farthest(a) ==
    IF a.points = << >>
    THEN [a EXCEPT !.undefined = TRUE]
    ELSE [a EXCEPT !.farthest = a.points[Len(a.points)].exactDistance]

\* GeoHopper::addSpecific
HopperAddSpecific(a, node, newDoc) ==
    IF ~newDoc THEN a
    ELSE IF MinDistance(a, node) < 0 THEN a
    ELSE Farthest(Erase(ExactDistances(a, node)))

(***************************************************************************)
(* GeoBrowse as an accumulator: the circle and the box cursor.             *)
(***************************************************************************)
\* k <= _error, for an integer k
WithinError(k) == k <= 0 \/ k * k <= ErrorSq

\* Box::between( min, max, val, fudge ) with fudge = _error
BetweenFudge(min, max, val) == WithinError(min - val) /\ WithinError(val - max)
\* Box::inside( p, fudge ) with fudge = _error
InsideFudge(b, p) ==
    BetweenFudge(b.min.x, b.max.x, p.x) /\ BetweenFudge(b.min.y, b.max.y, p.y)
\* Box::onBoundary( bound, val, fudge ) with fudge = _error
OnBound(bound, val) == WithinError(bound - val) /\ WithinError(val - bound)
\* Box::onBoundary( p, fudge ) with fudge = _error
OnBoundary(b, p) ==
    \/ OnBound(b.min.x, p.x) \/ OnBound(b.max.x, p.x)
    \/ OnBound(b.min.y, p.y) \/ OnBound(b.max.y, p.y)

\* GeoCircleBrowse::checkDistance
CircleCheckDistance(a, node) ==
    LET d == DistanceSq(Unhash(a.start), Unhash(node.key))
    IN  IF RootLeqSum(a.maxDistance, d, ErrorSq) /\ RootLeqSum(d, a.maxDistance, ErrorSq)
        THEN \E l \in index.docs[node.recordLoc].locs :
                 DistanceWithin(a.startPt, l, a.maxDistance)
        ELSE d <= a.maxDistance

\* GeoBoxBrowse::checkDistance
BoxCheckDistance(a, node) ==
    LET approxPt == Unhash(node.key)
        approxInside == InsideFudge(a.want, approxPt)
    IN  IF approxInside /\ OnBoundary(a.want, approxPt)
        THEN \E l \in index.docs[node.recordLoc].locs : Inside(a.want, l)
        ELSE approxInside

\* an addSpecific that takes every accepted key, not the first of a document
BrowseAddEveryKey(a, node, newDoc) ==
    IF a.cur = 0
    THEN [a EXCEPT !.cur = node.recordLoc, !.accepted = Append(@, node.recordLoc)]
    ELSE [a EXCEPT !.stack = Append(@, node.recordLoc),
                   !.accepted = Append(@, node.recordLoc)]

\* GeoBrowse::addSpecific; cur = 0 is the empty GeoPoint
BrowseAddSpecific(a, node, newDoc) ==
    IF ~newDoc THEN a
    ELSE IF a.cur = 0
         THEN [a EXCEPT !.cur = node.recordLoc, !.accepted = Append(@, node.recordLoc)]
    ELSE [a EXCEPT !.stack = Append(@, node.recordLoc),
                   !.accepted = Append(@, node.recordLoc)]

\* the virtual checkDistance of the accumulator
CheckDistance(a, node) ==
    CASE a.kind = "hopper" -> HopperCheckDistance(a, node)
      [] a.kind = "circle" -> CircleCheckDistance(a, node)
      [] a.kind = "box" -> BoxCheckDistance(a, node)

\* the process has ended in the addSpecific of the accumulator
Faulted(a) == a.kind = "hopper" /\ a.undefined

\* the virtual addSpecific of the accumulator
AddSpecific(a, node, newDoc) ==
    IF a.kind = "hopper" THEN HopperAddSpecific(a, node, newDoc)
    ELSE BrowseAddSpecific(a, node, newDoc)

\* _matched[ node.recordLoc ] = verdict
Verdict(matched, loc, verdict) ==
    [d \in DOMAIN matched \cup {loc} |-> IF d = loc THEN verdict ELSE matched[d]]

\* an add that does not look at the verdict kept for a document
AddForgetful(a, pos) ==
    LET node == index.tree[pos]
        loc == node.recordLoc
        s == [a EXCEPT !.seen = @ \cup {pos}]
        newDoc == loc \notin DOMAIN a.matched
    IN  IF pos \in a.seen THEN a
        ELSE IF ~CheckDistance(s, node) THEN s
        ELSE IF newDoc /\ ~index.docs[loc].good
             THEN [s EXCEPT !.matched = Verdict(@, loc, FALSE)]
        ELSE LET t == IF newDoc THEN [s EXCEPT !.matched = Verdict(@, loc, TRUE)]
                      ELSE s
             IN  IF Faulted(AddSpecific(t, node, newDoc)) THEN AddSpecific(t, node, newDoc)
                 ELSE [AddSpecific(t, node, newDoc) EXCEPT !.found = @ + 1]

\* GeoAccumulator::add of the key at position pos of the tree
Add(a, pos) ==
    LET node == index.tree[pos]
        loc == node.recordLoc
        s == [a EXCEPT !.seen = @ \cup {pos}]
        newDoc == loc \notin DOMAIN a.matched
    IN  IF pos \in a.seen THEN a
        ELSE IF ~CheckDistance(s, node) THEN s
        ELSE IF newDoc /\ ~index.docs[loc].good
             THEN [s EXCEPT !.matched = Verdict(@, loc, FALSE)]
        ELSE IF ~newDoc /\ ~a.matched[loc] THEN s
        ELSE LET t == IF newDoc THEN [s EXCEPT !.matched = Verdict(@, loc, TRUE)]
                      ELSE s
             IN  IF Faulted(AddSpecific(t, node, newDoc)) THEN AddSpecific(t, node, newDoc)
                 ELSE [AddSpecific(t, node, newDoc) EXCEPT !.found = @ + 1]

(***************************************************************************)
(* The inputs: the documents, the query.                                   *)
(***************************************************************************)
\* documents of the collection
MaxDocs == 3
\* locations of the first document (the others have one)
MaxLocs == 2
\* number of documents asked for
MaxWanted == 2
\* the coordinates that locations take: on the x axis the first of the world,
\* the last of a cell of the finest level, the first and an inner one of the
\* next cell, and the border of a cell of every level; on the y axis the first
\* of the world and the border of a cell of the finest level
SiteCoords == {GeoMin, CellUnits - 1, CellUnits, CellUnits + 2, GeoMax \div 2}
SiteRows == {GeoMin, CellUnits}
Sites == {p \in Points : p.x \in SiteCoords /\ p.y \in SiteRows}
\* numeric_limits<double>::max() as maxDistance, squared: farther than any
\* two points, cells or sums of them
NoMaxDistance == (4 * (GeoMax - GeoMin)) * (4 * (GeoMax - GeoMin))
\* the maxDistance of a query, squared
MaxDistances == {1, CellUnits * CellUnits, NoMaxDistance}

\* the points a query is made from: the corner of the world, the corner of a
\* cell, the inside of a cell
StartPoints ==
    {[x |-> GeoMin, y |-> GeoMin], [x |-> CellUnits, y |-> GeoMin],
     [x |-> CellUnits + 1, y |-> CellUnits + 1]}

LocSets(sites, n) == {S \in SUBSET sites : Cardinality(S) >= 1 /\ Cardinality(S) <= n}
Documents(sites, n) == [locs : LocSets(sites, n), good : BOOLEAN]
\* documents of one location that match the filter
GoodDocuments(sites) == {[locs |-> {l}, good |-> TRUE] : l \in sites}
\* the locations in the middle of the world
FarSites == {p \in Sites : p.x = GeoMax \div 2}
\* the collections of n documents at most: the first document has MaxLocs
\* locations at most of sites, the second has one, the others have one of far
\* and match the filter
RECURSIVE CollectionsOf(_, _, _)
CollectionsOf(sites, far, n) ==
    IF n = 0 THEN {<< >>}
    ELSE IF n = 1 THEN {<< >>} \cup {<<a>> : a \in Documents(sites, MaxLocs)}
    ELSE CollectionsOf(sites, far, n - 1) \cup
         {Append(c, b) : c \in {c \in CollectionsOf(sites, far, n - 1) : Len(c) = n - 1},
                         b \in IF n = 2 THEN Documents(sites, 1) ELSE GoodDocuments(far)}
Collections == CollectionsOf(Sites, FarSites, MaxDocs) \ {<< >>}

IdleRecovery ==
    /\ dir = << >> /\ gpos = 1 /\ m = << >> /\ files = << >> /\ gpc = "idle"
    /\ IdleJob

(***************************************************************************)
(* SpecHopper: GeoHopper::add on the keys of the index, in any order.      *)
(***************************************************************************)
InitHopper ==
    /\ IdleRecovery
    /\ \E docs \in Collections : index = [docs |-> docs, tree |-> Btree(GetKeys(docs))]
    /\ \E max \in 0 .. MaxWanted, near \in StartPoints,
          maxDistance \in MaxDistances :
          hopper = NewHopper(max, near, maxDistance)
    /\ query = NoObject /\ search = NoObject /\ browse = NoObject /\ ret = NoObject

HopperAdd ==
    /\ hopper.kind = "hopper"
    /\ ~Faulted(hopper)
    /\ \E pos \in 1 .. Len(index.tree) : hopper' = Add(hopper, pos)
    /\ UNCHANGED <<index, query, search, browse, ret>>
    /\ UNCHANGED gfVars /\ UNCHANGED rjVars

NextHopper == HopperAdd

SpecHopper == InitHopper /\ [][NextHopper]_vars

(***************************************************************************)
(* Boxes whose bounds are not exact coordinates.  A bound is               *)
(* base + sgn * (sqrt(far) + _error), sgn of -1, 0, 1: the want box of     *)
(* GeoSearch::exec and the bounding box of a circle have such bounds, the  *)
(* box of a cell has exact ones (sgn = 0).                                 *)
(***************************************************************************)
\* sqrt(far) + _error < k and sqrt(far) + _error <= k, for an integer k
FarLess(far, k) == k > 0 /\ ~RootLeqSum(k * k, far, ErrorSq)
FarLeq(far, k) == k >= 0 /\ SumLeqRoot(far, ErrorSq, k * k)

\* u < v, for two bounds of which one at most is not exact
Less(u, v) ==
    CASE u.sgn = 0 /\ v.sgn = 0 -> u.base < v.base
      [] u.sgn = 0 /\ v.sgn = 1 -> ~FarLeq(v.far, u.base - v.base)
      [] u.sgn = 0 /\ v.sgn = -1 -> FarLess(v.far, v.base - u.base)
      [] u.sgn = 1 /\ v.sgn = 0 -> FarLess(u.far, v.base - u.base)
      [] u.sgn = -1 /\ v.sgn = 0 -> ~FarLeq(u.far, u.base - v.base)

Exact(v) == [base |-> v, sgn |-> 0, far |-> 0]
\* the box of exact bounds b
ExactBox(b) ==
    [min |-> [x |-> Exact(b.min.x), y |-> Exact(b.min.y)],
     max |-> [x |-> Exact(b.max.x), y |-> Exact(b.max.y)]]
\* Box( x - size, y - size, 2 * size ) with size = sqrt(far) + _error
BoxAround(p, far) ==
    [min |-> [x |-> [base |-> p.x, sgn |-> -1, far |-> far],
              y |-> [base |-> p.y, sgn |-> -1, far |-> far]],
     max |-> [x |-> [base |-> p.x, sgn |-> 1, far |-> far],
              y |-> [base |-> p.y, sgn |-> 1, far |-> far]]]

\* Box::mid: the two bounds of the common part on one axis, none when mid
\* returns false
Mid(amin, amax, bmin, bmax) ==
    IF Less(amin, bmin)
    THEN IF Less(amax, bmin) THEN << >> ELSE <<bmin, amax>>
    ELSE IF Less(bmax, amin) THEN << >> ELSE <<amin, bmax>>

\* Box::intersects( other ) > 0: mid succeeds on both axes and the box of the
\* four bounds it gives has an area
Intersects(a, b) ==
    LET mx == Mid(a.min.x, a.max.x, b.min.x, b.max.x)
        my == Mid(a.min.y, a.max.y, b.min.y, b.max.y)
    IN  /\ mx # << >> /\ my # << >>
        /\ Less(mx[1], mx[2]) /\ Less(my[1], my[2])

(***************************************************************************)
(* GeoSearch.                                                              *)
(***************************************************************************)
\* GeoHash(): no bits
NoHash == [x |-> 0, y |-> 0, bits |-> 0]
\* Box()
NoBox == [min |-> [x |-> 0, y |-> 0], max |-> [x |-> 0, y |-> 0]]

\* GeoSearch( g, startPt, numWanted, filter, maxDistance )
NewSearch(startPt, numWanted, maxDistance) ==
    [kind |-> "search", startPt |-> startPt, start |-> Hash(startPt),
     prefix |-> NoHash, numWanted |-> numWanted, maxDistance |-> maxDistance,
     hopper |-> NewHopper(numWanted, startPt, maxDistance),
     nscanned |-> 0, found |-> 0, alreadyScanned |-> NoBox,
     min |-> 0, max |-> 0, phase |-> 0, tests |-> << >>]

\* the process has ended in an add of the hopper: exec makes no further step
Ended(s) == Faulted(s.hopper)

\* BtreeLocation::checkCur( _found, hopper ) of GeoSearch
SearchCheckCur(s, pos) ==
    IF pos = 0 THEN s
    ELSE [s EXCEPT !.found = @ + 1, !.hopper = Add(@, pos)]

\* while ( min.hasPrefix(_prefix) && min.checkCur(_found, hopper) &&
\*         min.advance(-1, _found, NULL) ) _nscanned++;  and the same with max, +1
\* SweepOn is the advance of a pass, after its checkCur
RECURSIVE Sweep(_, _, _, _)
RECURSIVE SweepOn(_, _, _, _)
SweepOn(s, side, direction, prefix) ==
    IF Ended(s) THEN s
    ELSE IF BtreeAdvance(s[side], direction) = 0 THEN [s EXCEPT ![side] = 0]
    ELSE Sweep([s EXCEPT ![side] = BtreeAdvance(@, direction), !.nscanned = @ + 1],
               side, direction, prefix)
Sweep(s, side, direction, prefix) ==
    IF Ended(s) THEN s
    ELSE IF ~LocHasPrefix(s[side], prefix) THEN s
    ELSE SweepOn(SearchCheckCur(s, s[side]), side, direction, prefix)

\* _spec->sizeEdge( _prefix ) <= _scanDistance, _scanDistance = _maxDistance + _error
EdgeInScanDistance(s) ==
    RootLeqSum(SizeEdge(s.prefix) * SizeEdge(s.prefix), s.maxDistance, ErrorSq)

\* phase 1 of exec: the loop that sweeps the prefix and shortens it; phase = 1
\* when exec returned from the loop
\* Swept is a pass of the loop after its two sweeps; tests is history: the
\* prefix and the number of points held at every test of the loop condition,
\* and whether the loop went on
RECURSIVE Phase1(_)
RECURSIVE Swept(_)
Swept(s) ==
    IF Ended(s) THEN s
    ELSE IF ~Constrains(s.prefix) THEN [s EXCEPT !.phase = 1]
    ELSE Phase1([s EXCEPT !.alreadyScanned = BoxOf(s.prefix),
                          !.prefix = Up(s.prefix)])
Tested(s, go) ==
    [s EXCEPT !.tests = Append(@, [prefix |-> s.prefix, found |-> s.hopper.found,
                                   go |-> go])]
\* a loop that goes on while fewer points than wanted are held or the edge is
\* in the scan distance
Phase1Either(s) ==
    IF \/ ~Constrains(s.prefix)
       \/ s.hopper.found < s.numWanted \/ EdgeInScanDistance(s)
    THEN Swept(Sweep(Sweep(Tested(s, TRUE), "min", -1, s.prefix), "max", 1, s.prefix))
    ELSE Tested(s, FALSE)
Phase1(s) ==
    IF \/ ~Constrains(s.prefix)
       \/ s.hopper.found < s.numWanted /\ EdgeInScanDistance(s)
    THEN Swept(Sweep(Sweep(Tested(s, TRUE), "min", -1, s.prefix), "max", 1, s.prefix))
    ELSE Tested(s, FALSE)

\* the keys doBox scans of a cell before it turns to the four parts of it
DeeperScanned == 100
\* the deepest doBox that turns to the parts of its cell
DeeperDepth == 2

RECURSIVE Gcd(_, _)
Gcd(a, b) == IF b = 0 THEN Abs(a) ELSE Gcd(Abs(b), Abs(a) % Abs(b))
\* sqrt(n) <= sqrt(a) + sqrt(b), with no square above (a + b) * (a + b)
RootAtMostSum(n, a, b) ==
    n <= a + b \/ (n - a - b <= a + b /\ (n - a - b) * (n - a - b) <= 4 * a * b)
\* sqrt(a) + sqrt(b) <= sqrt(n), with no square above (a + b) * (a + b)
SumAtMostRoot(a, b, n) ==
    n >= a + b /\ (n - a - b > a + b \/ 4 * a * b <= (n - a - b) * (n - a - b))
\* c + k * ( sqrt(far) + _error ) < 0, for integers c and k
RECURSIVE LinearNegative(_, _, _)
LinearNegative(c, k, far) ==
    IF k = 0 THEN c < 0
    ELSE IF Gcd(c, k) > 1
    THEN LinearNegative(c \div Gcd(c, k), k \div Gcd(c, k), far)
    ELSE IF k > 0
    THEN c < 0 /\ ~RootAtMostSum(c * c, k * k * far, k * k * ErrorSq)
    ELSE c <= 0 \/ ~SumAtMostRoot(k * k * far, k * k * ErrorSq, c * c)
\* max - min of two bounds: base + sgn * ( sqrt(far) + _error )
Span(lo, hi) == [base |-> hi.base - lo.base, sgn |-> hi.sgn - lo.sgn]
\* testBox.intersects( want ) < .5; the ratio is 0 when mid fails, else
\* intersection.area() / ( ( area() + other.area() ) / 2 ) < .5 is
\* 4 * intersection.area() - area() - other.area() < 0, and the terms with the
\* square of sqrt(far) + _error cancel for a box made by BoxAround or ExactBox
IntersectsBelowHalf(testBox, want) ==
    LET ix == Mid(Exact(testBox.min.x), Exact(testBox.max.x), want.min.x, want.max.x)
        iy == Mid(Exact(testBox.min.y), Exact(testBox.max.y), want.min.y, want.max.y)
        sx == Span(ix[1], ix[2])
        sy == Span(iy[1], iy[2])
        wx == Span(want.min.x, want.max.x)
        wy == Span(want.min.y, want.max.y)
    IN  IF ix = << >> \/ iy = << >> THEN TRUE
        ELSE LinearNegative(4 * sx.base * sy.base - Area(testBox) - wx.base * wy.base,
                            4 * (sx.base * sy.sgn + sx.sgn * sy.base)
                                - (wx.base * wy.sgn + wx.sgn * wy.base),
                            want.min.x.far)
\* bool goDeeper = intPer < .5 && depth < 2
GoDeeper(want, toscan, depth) ==
    depth < DeeperDepth /\ IntersectsBelowHalf(BoxOf(toscan), want)

\* the while loop of doBox, loc.hasPrefix( toscan ) && loc.advance( 1, _found, hopper ),
\* with myscanned keys scanned: it ends at the end of the keys of the cell, or,
\* past DeeperScanned keys of a cell that want covers by less than half, at
\* the four doBox calls on the parts of the cell (deeper)
RECURSIVE ScanBox(_, _, _, _, _, _)
ScanBox(s, want, loc, toscan, depth, myscanned) ==
    IF Ended(s) THEN [search |-> s, deeper |-> FALSE]
    ELSE IF ~LocHasPrefix(loc, toscan) THEN [search |-> s, deeper |-> FALSE]
    ELSE IF BtreeAdvance(loc, 1) = 0 THEN [search |-> s, deeper |-> FALSE]
    ELSE IF myscanned + 1 > DeeperScanned /\ GoDeeper(want, toscan, depth)
    THEN [search |-> [SearchCheckCur(s, BtreeAdvance(loc, 1)) EXCEPT !.nscanned = @ + 1],
          deeper |-> TRUE]
    ELSE ScanBox([SearchCheckCur(s, BtreeAdvance(loc, 1)) EXCEPT !.nscanned = @ + 1],
                 want, BtreeAdvance(loc, 1), toscan, depth, myscanned + 1)

\* GeoSearch::doBox( id, want, toscan, depth ); Deeper is the end of its loop:
\* doBox on toscan + "00", "01", "10", "11" at depth + 1, then return
RECURSIVE DoBox(_, _, _, _)
Deeper(scan, want, toscan, depth) ==
    IF ~scan.deeper THEN scan.search
    ELSE DoBox(DoBox(DoBox(DoBox(scan.search,
             want, Child(toscan, 0, 0), depth + 1),
             want, Child(toscan, 0, 1), depth + 1),
             want, Child(toscan, 1, 0), depth + 1),
             want, Child(toscan, 1, 1), depth + 1)
DoBox(s, want, toscan, depth) ==
    IF Ended(s) THEN s
    ELSE IF Area(s.alreadyScanned) > 0 /\ Contains(s.alreadyScanned, BoxOf(toscan))
    THEN s
    ELSE IF ~Intersects(ExactBox(BoxOf(toscan)), want) THEN s
    ELSE Deeper(ScanBox(SearchCheckCur(s, Locate(toscan, 1)), want, Locate(toscan, 1),
                        toscan, depth, 0),
                want, toscan, depth)

\* the 3x3 cells around the prefix, from the n-th on:
\* for x = -1 .. 1, for y = -1 .. 1: doBox( id, want, toscan moved by (x, y) )
RECURSIVE DoBoxes(_, _, _)
DoBoxes(s, want, n) ==
    IF n >= 9 THEN s
    ELSE DoBoxes(DoBox(s, want, Move(s.prefix, (n \div 3) - 1, (n % 3) - 1), 0),
                 want, n + 1)

\* _prefix = _start; while ( _prefix.constrains() && sizeEdge( _prefix ) < farthest )
\*     _prefix = _prefix.up();   with farthest = sqrt(far) + _error
RECURSIVE RaisePrefix(_, _)
RaisePrefix(prefix, far) ==
    IF Constrains(prefix) /\ ~FarLeq(far, SizeEdge(prefix))
    THEN RaisePrefix(Up(prefix), far)
    ELSE prefix

\* phase 2 of exec; phase = 2 after the scan of the whole collection, 3 after
\* the scan of the 3x3 cells
\* Scan is phase 2 once the prefix and the box wanted are set
ExecReturned(s, phase) == IF Ended(s) THEN s ELSE [s EXCEPT !.phase = phase]
Scan(s, want) ==
    IF s.prefix.bits <= 1
    THEN ExecReturned(Sweep(Sweep(s, "min", -1, NoHash), "max", 1, NoHash), 2)
    ELSE ExecReturned(DoBoxes(s, want, 0), 3)
\* the distance phase 2 goes out to
Far(s) == IF s.hopper.found < s.numWanted THEN s.maxDistance ELSE s.hopper.farthest
Phase2(s) ==
    Scan([s EXCEPT !.prefix = RaisePrefix(s.start, Far(s))], BoxAround(s.startPt, Far(s)))

\* GeoSearch::exec
\* exec after phase 1
Phase1Done(s) == IF s.phase = 1 \/ Ended(s) THEN s ELSE Phase2(s)
\* exec after BtreeLocation::initial
Located(s) ==
    IF s.min = 0 /\ s.max = 0 THEN [s EXCEPT !.phase = 1]
    ELSE Phase1Done(Phase1(s))
\* phase = -1: the process ended in exec
ExecEnded(s) == IF Ended(s) THEN [s EXCEPT !.phase = -1] ELSE s
Exec(s) ==
    ExecEnded(Located([s EXCEPT !.prefix = s.start,
                                !.min = Locate(s.start, -1),
                                !.max = Locate(s.start, 1)]))

(***************************************************************************)
(* SpecNear: a nearest-point query, Geo2dType::newCursor for $near or the   *)
(* geoNear command (which may ask for 0 documents).                         *)
(***************************************************************************)
NoIndex == [docs |-> << >>, tree |-> << >>]

InitNear ==
    /\ IdleRecovery
    /\ \E docs \in Collections \cup {<< >>} :
          index = [docs |-> docs, tree |-> Btree(GetKeys(docs))]
    /\ \E numWanted \in 0 .. MaxWanted, startPt \in StartPoints,
          maxDistance \in MaxDistances :
          /\ query = [kind |-> "near", startPt |-> startPt, numWanted |-> numWanted,
                      maxDistance |-> maxDistance]
          /\ search = NewSearch(startPt, numWanted, maxDistance)
    /\ hopper = NoObject /\ browse = NoObject /\ ret = NoObject

\* exec finds the index empty
GeoSearchExecEmpty ==
    /\ search.kind = "search" /\ search.phase = 0
    /\ index.tree = << >>
    /\ search' = Exec(search)
    /\ UNCHANGED <<index, query, hopper, browse, ret>>
    /\ UNCHANGED gfVars /\ UNCHANGED rjVars

GeoSearchExec ==
    /\ search.kind = "search" /\ search.phase = 0
    /\ index.tree # << >>
    /\ search' = Exec(search)
    /\ UNCHANGED <<index, query, hopper, browse, ret>>
    /\ UNCHANGED gfVars /\ UNCHANGED rjVars

NextNear ==
    \/ GeoSearchExecEmpty
    \/ GeoSearchExec

SpecNear == InitNear /\ [][NextNear]_vars

(***************************************************************************)
(* GeoBrowse: the cursor of $within.  The record of a cursor holds the     *)
(* fields of GeoAccumulator (seen, matched, found), of GeoBrowse and of    *)
(* GeoCircleBrowse or GeoBoxBrowse; cur = 0 is the empty GeoPoint, a       *)
(* position of 0 the null bucket.  browseFound is GeoBrowse::_found, which *)
(* hides GeoAccumulator::_found in the methods of GeoBrowse and counts the *)
(* keys that checkCur looked at.  accepted is history: the documents that  *)
(* addSpecific took, in the order of the calls; depth is the number of     *)
(* nested fillStack calls that are running, deepest the largest it was,    *)
(* visited the neighbours a nested fillStack was called for: the value of  *)
(* _neighbor and the prefix of the call.                                   *)
(***************************************************************************)
\* GeoBrowse::maxPointsHeuristic, scaled from 300 to the collections of the model
MaxPointsHeuristic == 2

\* GeoBrowse( g, type, filter )
NewBrowse(kind) ==
    [kind |-> kind, seen |-> {}, matched |-> NoVerdicts, found |-> 0,
     state |-> "START", neighbor |-> -1, browseFound |-> 0,
     firstCall |-> TRUE, nscanned |-> 0, cur |-> 0, stack |-> << >>,
     accepted |-> << >>, depth |-> 0, deepest |-> 0, visited |-> << >>,
     prefix |-> NoHash, centerPrefix |-> NoHash, centerBox |-> NoBox,
     min |-> 0, max |-> 0, asserted |-> FALSE,
     start |-> NoHash, startPt |-> [x |-> 0, y |-> 0], maxDistance |-> 0,
     want |-> NoBox]

\* GeoCircleBrowse::fitsInBox, GeoBoxBrowse::fitsInBox
FitsInBox(b, width) ==
    IF b.kind = "circle" THEN FarLeq(b.maxDistance, width)
    ELSE LET maxDim == IF b.want.max.x - b.want.min.x > b.want.max.y - b.want.min.y
                       THEN b.want.max.x - b.want.min.x
                       ELSE b.want.max.y - b.want.min.y
         IN  width - maxDim > 0 /\ (width - maxDim) * (width - maxDim) >= ErrorSq

\* GeoCircleBrowse::intersectsBox: _bBox.intersects( cur ),
\* GeoBoxBrowse::intersectsBox: _want.intersects( cur )
IntersectsBox(b, cur) ==
    IF b.kind = "circle"
    THEN Intersects(BoxAround(b.startPt, b.maxDistance), ExactBox(cur))
    ELSE Intersects(ExactBox(b.want), ExactBox(cur))

\* BtreeLocation::checkCur( _found, this ) of GeoBrowse
BrowseCheckCur(b, pos) ==
    IF pos = 0 THEN b
    ELSE [Add(b, pos) EXCEPT !.browseFound = @ + 1]
\* _min.checkCur( _found, this ), _max.checkCur( _found, this )
CheckCurMin(b) == BrowseCheckCur(b, b.min)
CheckCurMax(b) == BrowseCheckCur(b, b.max)

\* min.bucket = locate( ..., -1 ), max.bucket = locate( ..., 1 ) of initial
LocateMin(b) == [b EXCEPT !.min = Locate(b.prefix, -1)]
LocateMax(b) == [b EXCEPT !.max = Locate(b.prefix, 1)]

\* BtreeLocation::initial( id, spec, _min, _max, _prefix, _found, this );
\* it returns whether one of min and max is a key
Initial(b) == CheckCurMax(LocateMax(CheckCurMin(LocateMin(b))))

\* _min.advance( -1, _found, this ), _max.advance( 1, _found, this ): false
\* when the bucket it comes to is null
AdvanceMin(b) == CheckCurMin([b EXCEPT !.min = BtreeAdvance(@, -1)])
AdvanceMax(b) == CheckCurMax([b EXCEPT !.max = BtreeAdvance(@, 1)])

\* while ( _min.hasPrefix( _prefix ) && _min.advance( -1, _found, this ) &&
\*         _found < maxFound );
RECURSIVE ExpandMin(_, _)
RECURSIVE ExpandMinOn(_, _)
ExpandMinOn(b, maxFound) ==
    IF b.min # 0 /\ b.browseFound < maxFound THEN ExpandMin(b, maxFound) ELSE b
ExpandMin(b, maxFound) ==
    IF ~LocHasPrefix(b.min, b.prefix) THEN b
    ELSE ExpandMinOn(AdvanceMin(b), maxFound)

\* while ( _max.hasPrefix( _prefix ) && _max.advance( 1, _found, this ) &&
\*         _found < maxFound );
RECURSIVE ExpandMax(_, _)
RECURSIVE ExpandMaxOn(_, _)
ExpandMaxOn(b, maxFound) ==
    IF b.max # 0 /\ b.browseFound < maxFound THEN ExpandMax(b, maxFound) ELSE b
ExpandMax(b, maxFound) ==
    IF ~LocHasPrefix(b.max, b.prefix) THEN b
    ELSE ExpandMaxOn(AdvanceMax(b), maxFound)

\* the loop of the DOING_EXPAND block of fillStack; Expanded is what follows
\* the two scans of a pass
RECURSIVE Expand(_, _)
RECURSIVE Expanded(_, _)
Expanded(b, maxFound) ==
    IF b.browseFound >= maxFound THEN b
    ELSE IF ~Constrains(b.prefix) THEN [b EXCEPT !.state = "DONE"]
    ELSE IF ~FitsInBox(b, SizeEdge(b.prefix))
         THEN Expand([b EXCEPT !.prefix = Up(@)], maxFound)
    ELSE [b EXCEPT !.state = "DONE_NEIGHBOR", !.neighbor = @ + 1]
\* an expansion that does not return when the budget is used up
ExpandPastBudget(b, maxFound) ==
    LET s == ExpandMax(ExpandMin(b, maxFound), maxFound)
    IN  IF ~Constrains(s.prefix) THEN [s EXCEPT !.state = "DONE"]
        ELSE IF ~FitsInBox(s, SizeEdge(s.prefix))
             THEN Expand([s EXCEPT !.prefix = Up(@)], maxFound)
        ELSE [s EXCEPT !.state = "DONE_NEIGHBOR", !.neighbor = @ + 1]
Expand(b, maxFound) == Expanded(ExpandMax(ExpandMin(b, maxFound), maxFound), maxFound)

\* a test that skips the centre box only
SkipCenterOnly(b, dx, dy) == dx = 0 /\ dy = 0
\* the neighbour is the centre box, or lies beyond an edge of the world
SkipNeighbor(b, dx, dy) ==
    \/ dx = 0 /\ dy = 0
    \/ dx < 0 /\ b.centerBox.min.x <= GeoMin
    \/ dy < 0 /\ b.centerBox.min.y <= GeoMin
    \/ dx > 0 /\ b.centerBox.max.x >= GeoMax
    \/ dy > 0 /\ b.centerBox.max.y >= GeoMax

\* the two asserts after the nested fillStack
AfterNested(b, maxFound) ==
    IF b.browseFound >= maxFound
    THEN [b EXCEPT !.asserted = @ \/ b.state # "DOING_EXPAND", !.depth = @ - 1]
    ELSE [b EXCEPT !.asserted = @ \/ b.state # "DONE", !.depth = @ - 1]
\* the cursor as the nested fillStack finds it: _state = START, one call deeper
Nested(b) ==
    [b EXCEPT !.state = "START", !.depth = @ + 1,
              !.deepest = IF b.depth + 1 > @ THEN b.depth + 1 ELSE @,
              !.visited = Append(@, [neighbor |-> b.neighbor, prefix |-> b.prefix])]

\* the first pass of the loop over the neighbours sets the centre
Centered(b, isNeighbor) ==
    IF isNeighbor THEN b
    ELSE [b EXCEPT !.centerPrefix = b.prefix, !.centerBox = BoxOf(b.prefix)]

\* the START block of fillStack
Started(b, isNeighbor) ==
    IF b.min = 0 /\ b.max = 0
    THEN [b EXCEPT !.state = IF isNeighbor THEN "DONE_NEIGHBOR" ELSE "DONE"]
    ELSE [b EXCEPT !.state = "DOING_EXPAND"]
Start(b, isNeighbor) ==
    IF b.state # "START" THEN b
    ELSE Started(Initial(IF isNeighbor THEN b ELSE [b EXCEPT !.prefix = b.start]),
                 isNeighbor)

\* GeoBrowse::fillStack( maxToCheck ); Neighbors is the loop of its
\* DONE_NEIGHBOR block, Neighbor one pass of it, Visit the pass from newBox on
RECURSIVE FillStack(_, _)
RECURSIVE Neighbors(_, _, _)
RECURSIVE Neighbor(_, _, _, _)
RECURSIVE Visit(_, _)
Visit(b, maxFound) ==
    IF IntersectsBox(b, BoxOf(b.prefix))
    THEN AfterNested(FillStack(Nested(b), maxFound - b.browseFound), maxFound)
    ELSE Neighbors([b EXCEPT !.neighbor = @ + 1], maxFound, TRUE)
Neighbor(b, maxFound, dx, dy) ==
    IF SkipNeighbor(b, dx, dy)
    THEN Neighbors([b EXCEPT !.neighbor = @ + 1], maxFound, TRUE)
    ELSE Visit([b EXCEPT !.prefix = Move(b.centerPrefix, dx, dy)], maxFound)
Neighbors(b, maxFound, isNeighbor) ==
    IF b.neighbor >= 9 THEN [b EXCEPT !.state = "DONE"]
    ELSE Neighbor(Centered(b, isNeighbor), maxFound,
                  (b.neighbor \div 3) - 1, (b.neighbor % 3) - 1)

\* the DOING_EXPAND block of fillStack
Fill(b, maxFound) ==
    IF b.state = "DOING_EXPAND" THEN Expand(b, maxFound) ELSE b
\* the DONE_NEIGHBOR block of fillStack
Filled(b, maxFound, isNeighbor) ==
    IF b.state = "DONE_NEIGHBOR" THEN Neighbors(b, maxFound, isNeighbor) ELSE b

\* a START block that is entered again when the cursor is done
StartAgain(b) ==
    IF b.state \notin {"START", "DONE"} THEN b
    ELSE [Initial(b) EXCEPT !.state = "DOING_EXPAND"]
\* a fillStack that starts again when the cursor is done
FillStackAgain(b, maxToCheck) ==
    Filled(Fill(StartAgain(b), b.browseFound + maxToCheck),
           b.browseFound + maxToCheck, TRUE)

FillStack(b, maxToCheck) ==
    Filled(Fill(Start(b, Constrains(b.centerPrefix)), b.browseFound + maxToCheck),
           b.browseFound + maxToCheck, Constrains(b.centerPrefix))

\* GeoBrowse::moreToDo
MoreToDo(b) == b.state # "DONE"

\* a cursor and the value a call returned
Returns(b, value) == [b |-> b, value |-> value]

\* the loop of GeoBrowse::ok; OkFilled is what follows the fillStack of a pass
RECURSIVE OkLoop(_, _)
RECURSIVE OkFilled(_, _)
OkFilled(b, first) ==
    IF b.cur # 0
    THEN Returns([b EXCEPT !.nscanned = IF first THEN @ + 1 ELSE @], TRUE)
    ELSE OkLoop(b, first)
OkLoop(b, first) ==
    IF ~MoreToDo(b) THEN Returns(b, FALSE)
    ELSE OkFilled(FillStack(b, MaxPointsHeuristic), first)

\* GeoBrowse::ok from the test of _cur and the queue on
OkFirst(b, first) ==
    IF b.cur # 0 \/ Len(b.stack) > 0
    THEN Returns([b EXCEPT !.nscanned = IF first THEN @ + 1 ELSE @], TRUE)
    ELSE OkLoop(b, first)

\* the fillStack of the first call of ok()
FirstCall(b) ==
    IF b.firstCall
    THEN [FillStack(b, MaxPointsHeuristic) EXCEPT !.firstCall = FALSE]
    ELSE b

\* an ok() that counts every call that returns true
OkCounting(b) == OkFirst(FirstCall(b), TRUE)

\* GeoBrowse::ok
Ok(b) == OkFirst(FirstCall(b), b.firstCall)

\* while ( _cur.isEmpty() && moreToDo() ) fillStack( maxPointsHeuristic );
RECURSIVE AdvanceLoop(_)
\* an if in the place of the while: one fillStack at most
AdvanceLoopOnce(b) ==
    IF b.cur = 0 /\ MoreToDo(b) THEN FillStack(b, MaxPointsHeuristic) ELSE b
AdvanceLoop(b) ==
    IF b.cur = 0 /\ MoreToDo(b) THEN AdvanceLoop(FillStack(b, MaxPointsHeuristic))
    ELSE b

\* return ! _cur.isEmpty() && ++_nscanned;
AdvanceReturn(b) ==
    IF b.cur # 0 THEN Returns([b EXCEPT !.nscanned = @ + 1], TRUE)
    ELSE Returns(b, FALSE)

\* an advance that takes the document queued last
AdvancedNewest(b) ==
    IF Len(b.stack) > 0
    THEN Returns([b EXCEPT !.cur = b.stack[Len(b.stack)],
                           !.stack = SubSeq(@, 1, Len(@) - 1),
                           !.nscanned = @ + 1], TRUE)
    ELSE IF ~MoreToDo(b) THEN Returns(b, FALSE)
    ELSE AdvanceReturn(AdvanceLoop(b))

\* an advance that does not fill an empty queue
AdvancedIdle(b) ==
    IF Len(b.stack) > 0
    THEN Returns([b EXCEPT !.cur = Head(b.stack), !.stack = Tail(@),
                           !.nscanned = @ + 1], TRUE)
    ELSE Returns(b, FALSE)
\* GeoBrowse::advance, after _cur was emptied
Advanced(b) ==
    IF Len(b.stack) > 0
    THEN Returns([b EXCEPT !.cur = Head(b.stack), !.stack = Tail(@),
                           !.nscanned = @ + 1], TRUE)
    ELSE IF ~MoreToDo(b) THEN Returns(b, FALSE)
    ELSE AdvanceReturn(AdvanceLoop(b))

\* an advance that takes the document queued last
AdvanceNewest(b) == AdvancedNewest([b EXCEPT !.cur = 0])

\* GeoBrowse::advance
Advance(b) == Advanced([b EXCEPT !.cur = 0])

\* GeoCircleBrowse( g, circle, filter ), before the call of ok() that ends it
NewCircle(startPt, maxDistance) ==
    [NewBrowse("circle") EXCEPT !.start = Hash(startPt), !.startPt = startPt,
                                !.maxDistance = maxDistance]

\* uassert 13027 of _convert: in < _max && in >= _min, for both coordinates
InInterval(p) ==
    /\ p.x < GeoMax /\ p.x >= GeoMin
    /\ p.y < GeoMax /\ p.y >= GeoMin

\* a fixBox that clamps the corners and does not swap them
FixBoxNoSwap(box) ==
    LET up(v) == IF v < GeoMin THEN GeoMin ELSE v
        down(v) == IF v > GeoMax THEN GeoMax ELSE v
    IN  [min |-> [x |-> up(box.min.x), y |-> up(box.min.y)],
         max |-> [x |-> down(box.max.x), y |-> down(box.max.y)]]
\* GeoBoxBrowse::fixBox
FixBox(box) ==
    LET lo(u, v) == IF u > v THEN v ELSE u
        hi(u, v) == IF u > v THEN u ELSE v
        up(v) == IF v < GeoMin THEN GeoMin ELSE v
        down(v) == IF v > GeoMax THEN GeoMax ELSE v
    IN  [min |-> [x |-> up(lo(box.min.x, box.max.x)), y |-> up(lo(box.min.y, box.max.y))],
         max |-> [x |-> down(hi(box.min.x, box.max.x)), y |-> down(hi(box.min.y, box.max.y))]]

\* Box::center, each coordinate cut to the exact coordinate below it
Center(b) == [x |-> (b.min.x + b.max.x) \div 2, y |-> (b.min.y + b.max.y) \div 2]

\* GeoBoxBrowse( g, box, filter ), before the call of ok() that ends it
NewBox(box) ==
    [NewBrowse("box") EXCEPT !.want = FixBox(box), !.start = Hash(Center(FixBox(box)))]

(***************************************************************************)
(* SpecBrowse: a $within query with $center or $box.  The cursor is made   *)
(* (its constructor ends with a call of ok()); then ok(), advance() and    *)
(* fillStack( maxPointsHeuristic ) are called in any order.  ret holds the *)
(* last call and the value it returned, the same of the call before it,    *)
(* and the documents that the cursor has had as its current one, in order. *)
(***************************************************************************)
\* the locations of the documents: around the middle of the world on the x
\* axis, at the low edge of the world, and in the cell above
BrowseSites ==
    {[x |-> GeoMax \div 2 - 1, y |-> GeoMin + 1], [x |-> GeoMax \div 2, y |-> GeoMin],
     [x |-> GeoMax \div 2 + 1, y |-> GeoMin + 1], [x |-> GeoMin, y |-> GeoMax \div 2],
     [x |-> GeoMax \div 2 - 1, y |-> GeoMin + CellUnits + 1]}
BrowseCollections == CollectionsOf(BrowseSites, BrowseSites, MaxDocs)

\* the circles asked for: centre and squared radius
Circles ==
    {[kind |-> "circle", startPt |-> [x |-> GeoMax \div 2, y |-> GeoMin + 1], maxDistance |-> 1],
     [kind |-> "circle", startPt |-> [x |-> GeoMax \div 2 - 1, y |-> GeoMin + 1],
      maxDistance |-> CellUnits * CellUnits],
     [kind |-> "circle", startPt |-> [x |-> GeoMin, y |-> GeoMax \div 2], maxDistance |-> 1],
     [kind |-> "circle", startPt |-> [x |-> GeoMax \div 2, y |-> GeoMin + 1],
      maxDistance |-> GeoMax * GeoMax]}
\* the boxes asked for: one that ends on the border of a cell, one across it
\* with its corners in the other order, one with no area, one larger than the
\* world
Boxes ==
    {[kind |-> "box", min |-> [x |-> GeoMax \div 2 - 2, y |-> GeoMin],
                      max |-> [x |-> GeoMax \div 2, y |-> GeoMin + 2]],
     [kind |-> "box", min |-> [x |-> GeoMax \div 2 + 1, y |-> GeoMin + 2],
                      max |-> [x |-> GeoMax \div 2 - 1, y |-> GeoMin]],
     [kind |-> "box", min |-> [x |-> GeoMax \div 2, y |-> GeoMin],
                      max |-> [x |-> GeoMax \div 2, y |-> GeoMin + 2]],
     [kind |-> "box", min |-> [x |-> GeoMin - 1, y |-> GeoMin - 1],
                      max |-> [x |-> GeoMax + 1, y |-> GeoMax + 1]]}

InitBrowse ==
    /\ IdleRecovery
    /\ \E docs \in BrowseCollections :
          index = [docs |-> docs, tree |-> Btree(GetKeys(docs))]
    /\ query \in Circles \cup Boxes
    /\ hopper = NoObject /\ search = NoObject /\ browse = NoObject /\ ret = NoObject

\* the documents the cursor has had as current, after a call that took the
\* cursor from b to c
Emitted(call, b, c) ==
    IF c.cur # 0 /\ (call \in {"new", "advance"} \/ b.cur = 0)
    THEN Append(IF call = "new" THEN << >> ELSE ret.emitted, c.cur)
    ELSE IF call = "new" THEN << >> ELSE ret.emitted

\* a call on the cursor b that returned r: the cursor and ret after it
Called(call, b, r) ==
    /\ browse' = r.b
    /\ ret' = [kind |-> "ret", call |-> call, value |-> r.value,
               before |-> IF call = "new" THEN [call |-> "none", value |-> FALSE]
                          ELSE [call |-> ret.call, value |-> ret.value],
               emitted |-> Emitted(call, b, r.b)]

\* the constructor ends with ok()
Constructed(b) == Called("new", b, Ok(b))

\* Geo2dType::newCursor: $within with $center
GeoCircleBrowseNew ==
    /\ browse = NoObject /\ ret = NoObject
    /\ query.kind = "circle"
    /\ Constructed(NewCircle(query.startPt, query.maxDistance))
    /\ UNCHANGED <<index, query, hopper, search>>
    /\ UNCHANGED gfVars /\ UNCHANGED rjVars

\* Geo2dType::newCursor: $within with $box
GeoBoxBrowseNew ==
    /\ browse = NoObject /\ ret = NoObject
    /\ query.kind = "box"
    /\ Area(FixBox(query)) > 0
    /\ InInterval(Center(FixBox(query)))
    /\ Constructed(NewBox(query))
    /\ UNCHANGED <<index, query, hopper, search>>
    /\ UNCHANGED gfVars /\ UNCHANGED rjVars

\* uassert 13064 of GeoBoxBrowse: the box has no area
GeoBoxBrowseNoArea ==
    /\ browse = NoObject /\ ret = NoObject
    /\ query.kind = "box"
    /\ ~(Area(FixBox(query)) > 0)
    /\ ret' = [kind |-> "uassert", code |-> 13064]
    /\ UNCHANGED <<index, query, hopper, search, browse>>
    /\ UNCHANGED gfVars /\ UNCHANGED rjVars

\* uassert 13027 of _convert, in the hash of the centre of the box
GeoBoxBrowseNotInInterval ==
    /\ browse = NoObject /\ ret = NoObject
    /\ query.kind = "box"
    /\ Area(FixBox(query)) > 0
    /\ ~InInterval(Center(FixBox(query)))
    /\ ret' = [kind |-> "uassert", code |-> 13027]
    /\ UNCHANGED <<index, query, hopper, search, browse>>
    /\ UNCHANGED gfVars /\ UNCHANGED rjVars

GeoBrowseOk ==
    /\ browse # NoObject
    /\ Called("ok", browse, Ok(browse))
    /\ UNCHANGED <<index, query, hopper, search>>
    /\ UNCHANGED gfVars /\ UNCHANGED rjVars

GeoBrowseAdvance ==
    /\ browse # NoObject
    /\ Called("advance", browse, Advance(browse))
    /\ UNCHANGED <<index, query, hopper, search>>
    /\ UNCHANGED gfVars /\ UNCHANGED rjVars

GeoBrowseFillStack ==
    /\ browse # NoObject
    /\ Called("fillStack", browse, Returns(FillStack(browse, MaxPointsHeuristic), FALSE))
    /\ UNCHANGED <<index, query, hopper, search>>
    /\ UNCHANGED gfVars /\ UNCHANGED rjVars

NextBrowse ==
    \/ GeoCircleBrowseNew
    \/ GeoBoxBrowseNew
    \/ GeoBoxBrowseNoArea
    \/ GeoBrowseOk
    \/ GeoBrowseAdvance
    \/ GeoBrowseFillStack

SpecBrowse == InitBrowse /\ [][NextBrowse]_vars

(***************************************************************************)
(* SpecBox: Box::intersects on two boxes with corners on a small grid.     *)
(***************************************************************************)
\* Box::intersects( other ) as the fraction num / den; 0 / 1 when mid fails
IntersectsRatio(a, b) ==
    LET mx == Mid(Exact(a.min.x), Exact(a.max.x), Exact(b.min.x), Exact(b.max.x))
        my == Mid(Exact(a.min.y), Exact(a.max.y), Exact(b.min.y), Exact(b.max.y))
    IN  IF mx = << >> \/ my = << >> THEN [num |-> 0, den |-> 1]
        ELSE [num |-> 2 * (mx[2].base - mx[1].base) * (my[2].base - my[1].base),
              den |-> Area(a) + Area(b)]

\* the coordinates of the corners of a box
MaxCorner == 3
\* the boxes with min < max on both axes
GridBoxes ==
    {b \in [min : [x : 0 .. MaxCorner, y : 0 .. MaxCorner],
            max : [x : 0 .. MaxCorner, y : 0 .. MaxCorner]] :
        b.min.x < b.max.x /\ b.min.y < b.max.y}

InitBox ==
    /\ IdleRecovery
    /\ index = NoIndex
    /\ \E a, b \in GridBoxes : query = [kind |-> "boxes", a |-> a, b |-> b]
    /\ hopper = NoObject /\ search = NoObject /\ browse = NoObject /\ ret = NoObject

\* a.intersects( b )
BoxIntersects ==
    /\ query.kind = "boxes" /\ ret = NoObject
    /\ ret' = [kind |-> "ratio", value |-> IntersectsRatio(query.a, query.b)]
    /\ UNCHANGED <<index, query, hopper, search, browse>>
    /\ UNCHANGED gfVars /\ UNCHANGED rjVars

NextBox == BoxIntersects

SpecBox == InitBox /\ [][NextBox]_vars

(***************************************************************************)
(* SpecCodec: the round trip of GeoUnitTest::run, GeoHash( x, y ) followed  *)
(* by unhash_slow or unhash_fast.  The class GeoHash is declared outside    *)
(* 2d.cpp; its codec is modelled on a word of HashBytes bytes, four bits of *)
(* each axis per byte, the bytes of the word read in little-endian order.   *)
(***************************************************************************)
\* bytes of the hash word (8 in a long long)
HashBytes == 2
\* bits of an axis value at full width
AxisBits == 4 * HashBytes
\* bits of the hash word
WordBits == 8 * HashBytes
\* the unsigned values of an axis
AxisValues == 0 .. (2 ^ AxisBits) - 1

\* bit k of v counted from the most significant of width bits, as 0 or 1
BitFromMsb(v, k, width) == (v \div (2 ^ (width - 1 - k))) % 2
\* GeoHash::_init: bit 2i of the word is bit k of x, bit 2i+1 is bit k of y
RECURSIVE HashInit(_, _, _)
HashInit(x, y, k) ==
    IF k = AxisBits THEN 0
    ELSE BitFromMsb(x, k, AxisBits) * (2 ^ (WordBits - 1 - 2 * k))
         + BitFromMsb(y, k, AxisBits) * (2 ^ (WordBits - 2 - 2 * k))
         + HashInit(x, y, k + 1)
\* GeoHash( x, y ) at full width: the hash word
GeoHashXY(x, y) == HashInit(x, y, 0)

\* GeoHash::unhash_slow: one axis, bit by bit; first is 0 for x and 1 for y
RECURSIVE UnhashSlowAxis(_, _, _)
UnhashSlowAxis(h, first, k) ==
    IF k = AxisBits THEN 0
    ELSE BitFromMsb(h, 2 * k + first, WordBits) * (2 ^ (AxisBits - 1 - k))
         + UnhashSlowAxis(h, first, k + 1)
\* GeoHash::unhash_slow
UnhashSlow(h) == [x |-> UnhashSlowAxis(h, 0, 0), y |-> UnhashSlowAxis(h, 1, 0)]

\* GeoBitSets: the bits of a four-bit value moved to the even places of a byte
Spread(k) ==
    (k % 2) + 4 * ((k \div 2) % 2) + 16 * ((k \div 4) % 2) + 64 * ((k \div 8) % 2)
\* GeoBitSets::hashedToNormal, the table of 256 entries; 0 where nothing is stored
HashedToNormal ==
    [t \in 0 .. 255 |->
        IF \E k \in 0 .. 15 : Spread(k) = t
        THEN CHOOSE k \in 0 .. 15 : Spread(k) = t
        ELSE 0]
\* c & 0x55
And55(c) == (c % 2) + 4 * ((c \div 4) % 2) + 16 * ((c \div 16) % 2) + 64 * ((c \div 64) % 2)
\* byte k of the word in memory, the least significant first
ByteOf(h, k) == (h \div (256 ^ k)) % 256
\* GeoHash::unhash_fast: one axis, a byte at a time; shift is 1 for x and 0 for y
RECURSIVE UnhashFastAxis(_, _, _)
UnhashFastAxis(h, shift, k) ==
    IF k = HashBytes THEN 0
    ELSE HashedToNormal[And55(ByteOf(h, k) \div (2 ^ shift))] * (16 ^ k)
         + UnhashFastAxis(h, shift, k + 1)
\* an unhash_fast that takes the bytes of the word the most significant first
UnhashFastBigEndian(h) ==
    [x |-> UnhashFastAxis(h, 1, 0) \div 16 + 16 * (UnhashFastAxis(h, 1, 0) % 16),
     y |-> UnhashFastAxis(h, 0, 0) \div 16 + 16 * (UnhashFastAxis(h, 0, 0) % 16)]
\* GeoHash::unhash_fast
UnhashFast(h) == [x |-> UnhashFastAxis(h, 1, 0), y |-> UnhashFastAxis(h, 0, 0)]

\* unsigned x = rand(); unsigned y = rand();
InitCodec ==
    /\ IdleRecovery
    /\ index = NoIndex
    /\ \E x, y \in AxisValues : query = [kind |-> "xy", x |-> x, y |-> y]
    /\ hopper = NoObject /\ search = NoObject /\ browse = NoObject /\ ret = NoObject

\* an iteration of a loop of the test: hash, decode
RoundTrip(how, decoded) ==
    /\ query.kind = "xy" /\ ret = NoObject
    /\ ret' = [kind |-> "unhash", how |-> how, value |-> decoded]
    /\ UNCHANGED <<index, query, hopper, search, browse>>
    /\ UNCHANGED gfVars /\ UNCHANGED rjVars
\* GeoHash h( x, y ); h.unhash_slow( a, b );
UnitTestSlow == RoundTrip("slow", UnhashSlow(GeoHashXY(query.x, query.y)))
\* GeoHash h( x, y ); h.unhash_fast( a, b );
UnitTestFast == RoundTrip("fast", UnhashFast(GeoHashXY(query.x, query.y)))

NextCodec == UnitTestSlow \/ UnitTestFast

SpecCodec == InitCodec /\ [][NextCodec]_vars

(***************************************************************************)
(* SpecType: the constructor of Geo2dType on a key pattern of at most      *)
(* MaxFields fields.  A field is its name and whether its value is the     *)
(* string "2d".                                                            *)
(***************************************************************************)
\* fields of a key pattern
MaxFields == 3
\* the default of the option bits
DefaultBits == 26
\* the largest value of the option bits
MaxBits == 32
\* field names; BSON allows the empty name
FieldNames == {"", "a", "b"}
KeyFields == [name : FieldNames, geo2d : BOOLEAN]
RECURSIVE KeyPatternsOf(_)
KeyPatternsOf(n) ==
    IF n = 0 THEN {<< >>}
    ELSE KeyPatternsOf(n - 1)
         \cup {Append(p, f) : p \in {q \in KeyPatternsOf(n - 1) : Len(q) = n - 1}, f \in KeyFields}
KeyPatterns == KeyPatternsOf(MaxFields)
\* spec->info["bits"]: not a number, or a number
BitsOptions ==
    {[isNumber |-> FALSE, value |-> 0]}
    \cup {[isNumber |-> TRUE, value |-> v] : v \in {0, 1, MaxBits, MaxBits + 1}}

\* the members the loop over the key pattern fills, and the code of a failed uassert
NewType == [code |-> 0, geo |-> "", other |-> << >>]
\* one pass of the while loop on element e
TypeField(t, e) ==
    IF e.geo2d
    THEN IF t.geo # "" THEN [t EXCEPT !.code = 13022]
         ELSE IF Len(t.other) # 0 THEN [t EXCEPT !.code = 13023]
         ELSE [t EXCEPT !.geo = e.name]
    ELSE [t EXCEPT !.other = Append(t.other, e.name)]
\* the while loop from element k on; a failed uassert leaves the constructor
RECURSIVE TypeFields(_, _, _)
TypeFields(t, kp, k) ==
    IF t.code # 0 \/ k > Len(kp) THEN t
    ELSE TypeFields(TypeField(t, kp[k]), kp, k + 1)
\* _configval( spec, "bits", 26 )
ConfigBits(option) == IF option.isNumber THEN option.value ELSE DefaultBits
\* the constructor after the loop
TypeAfterLoop(t, option) ==
    IF t.code # 0 THEN t
    ELSE IF t.geo = "" THEN [t EXCEPT !.code = 13024]
    ELSE IF ~(ConfigBits(option) > 0 /\ ConfigBits(option) <= MaxBits)
         THEN [t EXCEPT !.code = 13028]
    ELSE t
\* Geo2dType( plugin, spec )
Geo2dTypeOf(kp, option) == TypeAfterLoop(TypeFields(NewType, kp, 1), option)

InitType ==
    /\ IdleRecovery
    /\ index = NoIndex
    /\ \E kp \in KeyPatterns, o \in BitsOptions :
          query = [kind |-> "spec", keyPattern |-> kp, bits |-> o]
    /\ hopper = NoObject /\ search = NoObject /\ browse = NoObject /\ ret = NoObject

\* new Geo2dType( plugin, spec )
Geo2dTypeNew ==
    /\ query.kind = "spec" /\ ret = NoObject
    /\ ret' = [kind |-> "type", value |-> Geo2dTypeOf(query.keyPattern, query.bits)]
    /\ UNCHANGED <<index, query, hopper, search, browse>>
    /\ UNCHANGED gfVars /\ UNCHANGED rjVars

NextType == Geo2dTypeNew

SpecType == InitType /\ [][NextType]_vars

(***************************************************************************)
(* SpecCluster: the command geoCluster.  The cursor is a GeoBoxBrowse with *)
(* the clusters and markers of GeoClusterBrowse; the loop of run() takes   *)
(* one document per step.  Coordinates are degrees.  The projection of a   *)
(* point is linear on x and the Mercator projection on y, which is kept as *)
(* a table in fixed point; the centre of a cluster box is kept as the sum  *)
(* of its points and the count, and _extendDisance as extent, which is     *)
(* _extendDisance * 360 * gridSize in the units of the table.              *)
(***************************************************************************)
\* units of the table per degree
MercatorScale == 10000000
\* entries of the table per degree: the centre of a box of one, two or three
\* points is looked up
MercatorSteps == 6
\* 360 * (0.5 - point_to_projection(p)._y) for p._y = k / MercatorSteps degrees,
\* k = 0 .. MercatorSteps * GeoMax, which is
\* (180 / pi) * log((1 + sin y) / (1 - sin y)) / 2, rounded to the unit
MercatorTable ==
    << 0, 1666669, 3333352, 5000063, 6666817, 8333627,
       10000508, 11667473, 13334537, 15001714, 16669018, 18336463,
       20004063, 21671832, 23339786, 25007937, 26676299, 28344888,
       30013717, 31682801, 33352153, 35021788, 36691720, 38361963,
       40032532, 41703441, 43374704, 45046335, 46718349, 48390760,
       50063583, 51736831, 53410520, 55084663, 56759275, 58434371,
       60109964, 61786070, 63462702, 65139876, 66817606, 68495907,
       70174792, 71854278, 73534377, 75215106, 76896479, 78578510,
       80261214, 81944607, 83628702, 85313515, 86999061, 88685354,
       90372410, 92060243, 93748868, 95438301, 97128557, 98819650,
       100511597, 102204411, 103898108, 105592704, 107288214, 108984653,
       110682037, 112380381, 114079700, 115780010, 117481327, 119183666,
       120887043, 122591474, 124296973, 126003558, 127711243, 129420046,
       131129981, 132841065, 134553314, 136266743, 137981370, 139697209,
       141414279, 143132594, 144852171, 146573026, 148295177, 150018640,
       151743430, 153469566, 155197063, 156925939, 158656209, 160387892,
       162121004, 163855563, 165591584, 167329087, 169068087, 170808602,
       172550649, 174294247, 176039412, 177786162, 179534515, 181284488,
       183036100, 184789368, 186544311, 188300946, 190059291, 191819365,
       193581187, 195344774, 197110145, 198877319, 200646313, 202417148,
       204189842, 205964414, 207740883, 209519267, 211299587, 213081861,
       214866109, 216652351, 218440606, 220230893, 222023233, 223817646,
       225614150, 227412768, 229213518, 231016422, 232821499, 234628771,
       236438257, 238249979, 240063957, 241880213, 243698768, 245519643,
       247342859, 249168438, 250996401, 252826770, 254659568, 256494815,
       258332535, 260172749, 262015480, 263860750, 265708583, 267559000,
       269412025, 271267681, 273125991, 274986978, 276850667, 278717080,
       280586241, 282458175, 284332906, 286210457, 288090854, 289974120,
       291860281, 293749362, 295641387, 297536383, 299434373, 301335385,
       303239443, 305146573, 307056803, 308970158, 310886664, 312806348,
       314729237, 316655359, 318584740, 320517407, 322453389, 324392713,
       326335408, 328281501, 330231021, 332183996, 334140456, 336100429,
       338063946 >>
\* the entry of the table for the latitude sum / count
Mercator(sum, count) == MercatorTable[(MercatorSteps * sum) \div count + 1]
\* min( maxPro._x - minPro._x, minPro._y - maxPro._y ) of the projections of
\* the corners of _want
ExtendDistance(want) ==
    IF (want.max.x - want.min.x) * MercatorScale
           < Mercator(want.max.y, 1) - Mercator(want.min.y, 1)
    THEN (want.max.x - want.min.x) * MercatorScale
    ELSE Mercator(want.max.y, 1) - Mercator(want.min.y, 1)
\* the default of the option gridSize
DefaultGridSize == 5
GridSizes == {1, DefaultGridSize}

\* GeoClusterBrowse( g, box, filter, needCluster, gridSize ), before the call
\* of ok() that ends the constructor of GeoBoxBrowse
NewClusterBrowse(box, needCluster, gridSize) ==
    [kind |-> "cluster", cursor |-> NewBox(box),
     needCluster |-> needCluster, gridSize |-> gridSize,
     extent |-> ExtendDistance(FixBox(box)),
     clusters |-> << >>, markers |-> << >>, emitted |-> << >>]

\* GeoMarker( poi, obj )
GeoMarker(poi, obj) == [poi |-> poi, obj |-> obj]
\* ClusterBox( min, max, extendDisance )
NewClusterBox ==
    [count |-> 0, sumx |-> 0, sumy |-> 0, marker |-> GeoMarker([x |-> 0, y |-> 0], 0),
     bounds |-> NoBox]
\* Box2::extend
Extend(b, p) ==
    [min |-> [x |-> IF p.x < b.min.x THEN p.x ELSE b.min.x,
              y |-> IF p.y < b.min.y THEN p.y ELSE b.min.y],
     max |-> [x |-> IF p.x > b.max.x THEN p.x ELSE b.max.x,
              y |-> IF p.y > b.max.y THEN p.y ELSE b.max.y]]
\* an addPoint that counts the first point of a box only
AddPointOnce(c, poi, marker) ==
    IF c.count = 0
    THEN [count |-> 1, sumx |-> poi.x, sumy |-> poi.y, marker |-> marker,
          bounds |-> [min |-> poi, max |-> poi]]
    ELSE [c EXCEPT !.sumx = @ + poi.x, !.sumy = @ + poi.y, !.bounds = Extend(@, poi)]
\* ClusterBox::addPoint
AddPoint(c, poi, marker) ==
    IF c.count = 0
    THEN [count |-> 1, sumx |-> poi.x, sumy |-> poi.y, marker |-> marker,
          bounds |-> [min |-> poi, max |-> poi]]
    ELSE [c EXCEPT !.count = @ + 1, !.sumx = @ + poi.x, !.sumy = @ + poi.y,
                   !.bounds = Extend(@, poi)]
\* The bounds of a cluster box after refreshBounds are the centre moved by
\* _extendDisance to both sides in the projection and projected back; a value
\* is between them when its projection is at most _extendDisance from that of
\* the centre.  When it is exactly _extendDisance away, the rounding of the
\* double arithmetic of the projections decides ("tie").
\* between( _min._x, _max._x, poi._x )
InsideX(g, c, poi) ==
    IF g.gridSize * Abs(poi.x * c.count - c.sumx) < (g.extent * c.count) \div MercatorScale
    THEN "in"
    ELSE IF g.gridSize * Abs(poi.x * c.count - c.sumx) > (g.extent * c.count) \div MercatorScale
    THEN "out"
    ELSE IF (g.extent * c.count) % MercatorScale = 0 THEN "tie" ELSE "in"
\* between( _min._y, _max._y, poi._y )
InsideY(g, c, poi) ==
    IF g.gridSize * Abs(Mercator(poi.y, 1) - Mercator(c.sumy, c.count)) < g.extent
    THEN "in"
    ELSE IF g.gridSize * Abs(Mercator(poi.y, 1) - Mercator(c.sumy, c.count)) > g.extent
    THEN "out"
    ELSE "tie"
\* Box::inside of a cluster box: the values it can return
ClusterInside(g, c, poi) ==
    IF InsideX(g, c, poi) = "out" \/ InsideY(g, c, poi) = "out" THEN {FALSE}
    ELSE IF InsideX(g, c, poi) = "tie" \/ InsideY(g, c, poi) = "tie" THEN {TRUE, FALSE}
    ELSE {TRUE}

\* the loop over _clusters from cluster k on: the first box the point is inside
\* takes it; 0 when there is none
RECURSIVE UsedBox(_, _, _)
UsedBox(g, poi, k) ==
    IF k > Len(g.clusters) THEN {0}
    ELSE (IF TRUE \in ClusterInside(g, g.clusters[k], poi) THEN {k} ELSE {})
         \cup (IF FALSE \in ClusterInside(g, g.clusters[k], poi)
               THEN UsedBox(g, poi, k + 1) ELSE {})
\* the body of the loop of curToCluster for a location inside _want, given
\* the box that takes it
Clustered(g, poi, k) ==
    IF k # 0
    THEN [g EXCEPT !.clusters[k] = AddPoint(@, poi, GeoMarker(poi, g.cursor.cur))]
    ELSE [g EXCEPT !.clusters =
             Append(@, AddPoint(NewClusterBox, poi, GeoMarker(poi, g.cursor.cur)))]
\* the body of the loop of curToCluster for one location: the cursors it can
\* leave
CurPoint(g, poi) ==
    IF ~Inside(g.cursor.want, poi) THEN {g}
    ELSE IF g.needCluster THEN {Clustered(g, poi, k) : k \in UsedBox(g, poi, 1)}
    ELSE {[g EXCEPT !.markers = Append(@, GeoMarker(poi, g.cursor.cur))]}
\* the loop of curToCluster over the locations getKeys gives, which are those
\* of the array of the document in its order
RECURSIVE CurPoints(_, _)
CurPoints(gs, locs) ==
    IF locs = << >> THEN gs
    ELSE CurPoints(UNION {CurPoint(g, Head(locs)) : g \in gs}, Tail(locs))
\* GeoClusterBrowse::curToCluster
CurToCluster(g) == CurPoints({g}, index.docs[g.cursor.cur].array)

\* cursor->advance()
ClusterAdvance(g) == [g EXCEPT !.cursor = Advance(@).b]
\* a pass of the loop of run() after an ok() that returned true on cursor b
ClusterPass(g, b) ==
    {ClusterAdvance(c) :
        c \in CurToCluster([g EXCEPT !.cursor = b, !.emitted = Append(@, b.cur)])}

\* the markers of the boxes of one point, in the order of the boxes
RECURSIVE SingleMarkers(_, _)
SingleMarkers(clusters, k) ==
    IF k > Len(clusters) THEN << >>
    ELSE (IF clusters[k].count = 1 THEN <<clusters[k].marker>> ELSE << >>)
         \o SingleMarkers(clusters, k + 1)
\* ClusterBox::obj of the boxes that go to the array clusters
RECURSIVE ClusterObjs(_, _)
ClusterObjs(clusters, k) ==
    IF k > Len(clusters) THEN << >>
    ELSE (IF clusters[k].count # 1 /\ clusters[k].count > 0
          THEN <<[bounds |-> clusters[k].bounds, count |-> clusters[k].count,
                  center |-> [sumx |-> clusters[k].sumx, sumy |-> clusters[k].sumy]]>>
          ELSE << >>)
         \o ClusterObjs(clusters, k + 1)
\* the result of run() after the loop
ClusterResult(g) ==
    [kind |-> "geoCluster", clusters |-> ClusterObjs(g.clusters, 1),
     markers |-> g.markers \o SingleMarkers(g.clusters, 1),
     nscanned |-> g.cursor.nscanned]

\* the boxes asked for: those of the box cursor, one around the documents at
\* the low edge of the world, one that is wider than high, and one outside the
\* world, which fixBox leaves with its corners in the other order
ClusterBoxes ==
    Boxes \cup {[kind |-> "box", min |-> [x |-> GeoMax \div 2 - 2, y |-> GeoMin],
                                 max |-> [x |-> GeoMax \div 2 + 2, y |-> GeoMin + CellUnits + 2]],
                [kind |-> "box", min |-> [x |-> GeoMax \div 2 - 4, y |-> GeoMin],
                                 max |-> [x |-> GeoMax \div 2 + 2, y |-> GeoMin + 2]],
                [kind |-> "box", min |-> [x |-> GeoMax + 1, y |-> GeoMax + 1],
                                 max |-> [x |-> GeoMax + 4, y |-> GeoMax + 4]]}

\* the arrays a document can hold its locations in: every order, and a
\* location twice
ArraysOf(locs, n) == {a \in SeqsUpTo(locs, n) : {a[k] : k \in 1 .. Len(a)} = locs}
\* the collections with the array of every document: the first document has
\* MaxLocs elements at most, the others have one
RECURSIVE WithArrays(_, _)
WithArrays(docs, n) ==
    IF docs = << >> THEN {<< >>}
    ELSE {<<[locs |-> Head(docs).locs, good |-> Head(docs).good, array |-> a]>> \o rest :
             a \in ArraysOf(Head(docs).locs, n), rest \in WithArrays(Tail(docs), 1)}
ClusterCollections == UNION {WithArrays(docs, MaxLocs) : docs \in BrowseCollections}

InitCluster ==
    /\ IdleRecovery
    /\ \E docs \in ClusterCollections :
          index = [docs |-> docs, tree |-> Btree(GetKeys(docs))]
    /\ \E box \in ClusterBoxes, g \in GridSizes, d \in BOOLEAN :
          query = [kind |-> "geoCluster", box |-> box, gridSize |-> g, disableCluster |-> d]
    /\ hopper = NoObject /\ search = NoObject /\ browse = NoObject /\ ret = NoObject

\* the constructor of the cursor with cursor b, ended by ok()
ClusterConstructed(g) == [g EXCEPT !.cursor = Ok(@).b]
\* run(): new GeoClusterBrowse( g, box, filter, needCluster, gridSize )
GeoClusterNew ==
    /\ browse = NoObject /\ ret = NoObject
    /\ query.kind = "geoCluster"
    /\ Area(FixBox(query.box)) > 0
    /\ InInterval(Center(FixBox(query.box)))
    /\ browse' = ClusterConstructed(
                     NewClusterBrowse(query.box, ~query.disableCluster, query.gridSize))
    /\ UNCHANGED <<index, query, hopper, search, ret>>
    /\ UNCHANGED gfVars /\ UNCHANGED rjVars

\* uassert 13064 of GeoBoxBrowse: the box has no area
GeoClusterNoArea ==
    /\ browse = NoObject /\ ret = NoObject
    /\ query.kind = "geoCluster"
    /\ ~(Area(FixBox(query.box)) > 0)
    /\ ret' = [kind |-> "uassert", code |-> 13064]
    /\ UNCHANGED <<index, query, hopper, search, browse>>
    /\ UNCHANGED gfVars /\ UNCHANGED rjVars

\* uassert 13027 of _convert, in the hash of the centre of the box that the
\* constructor of GeoBoxBrowse takes
GeoClusterNotInInterval ==
    /\ browse = NoObject /\ ret = NoObject
    /\ query.kind = "geoCluster"
    /\ Area(FixBox(query.box)) > 0
    /\ ~InInterval(Center(FixBox(query.box)))
    /\ ret' = [kind |-> "uassert", code |-> 13027]
    /\ UNCHANGED <<index, query, hopper, search, browse>>
    /\ UNCHANGED gfVars /\ UNCHANGED rjVars

\* while ( cursor->ok() ) { cursor->curToCluster(); cursor->advance(); }
GeoClusterLoop ==
    /\ browse # NoObject /\ ret = NoObject
    /\ browse.kind = "cluster"
    /\ Ok(browse.cursor).value
    /\ browse' \in ClusterPass(browse, Ok(browse.cursor).b)
    /\ UNCHANGED <<index, query, hopper, search, ret>>
    /\ UNCHANGED gfVars /\ UNCHANGED rjVars

\* run() from the end of the loop on
GeoClusterReturn ==
    /\ browse # NoObject /\ ret = NoObject
    /\ browse.kind = "cluster"
    /\ ~Ok(browse.cursor).value
    /\ browse' = [browse EXCEPT !.cursor = Ok(@).b]
    /\ ret' = ClusterResult(browse)
    /\ UNCHANGED <<index, query, hopper, search>>
    /\ UNCHANGED gfVars /\ UNCHANGED rjVars

NextCluster ==
    \/ GeoClusterNew
    \/ GeoClusterNoArea
    \/ GeoClusterNotInInterval
    \/ GeoClusterLoop
    \/ GeoClusterReturn

SpecCluster == InitCluster /\ [][NextCluster]_vars

(***************************************************************************)
(* SpecTies: GeoHopper::add on the keys of the index, in any order, with   *)
(* the record locators in the order in which exactDistances inserted a     *)
(* point for them kept in ret.                                             *)
(***************************************************************************)
InitTies ==
    /\ IdleRecovery
    /\ \E docs \in Collections : index = [docs |-> docs, tree |-> Btree(GetKeys(docs))]
    /\ \E max \in 1 .. MaxWanted, near \in StartPoints :
          hopper = NewHopper(max, near, NoMaxDistance)
    /\ query = NoObject /\ search = NoObject /\ browse = NoObject
    /\ ret = [kind |-> "inserted", order |-> << >>]

\* add( node ) reached _points.insert: the document is new, matches the filter
\* and has a location within maxDistance
Inserts(a, b, node) ==
    /\ node.recordLoc \notin DOMAIN a.matched
    /\ node.recordLoc \in DOMAIN b.matched
    /\ b.matched[node.recordLoc]
    /\ MinDistance(a, node) >= 0
\* the order of insertion after add( node ) took the holder from a to b
InsertedAfter(order, a, b, node) ==
    IF Inserts(a, b, node) THEN Append(order, node.recordLoc) ELSE order

HopperAddInOrder ==
    /\ hopper.kind = "hopper" /\ ret.kind = "inserted"
    /\ \E pos \in 1 .. Len(index.tree) :
          /\ hopper' = Add(hopper, pos)
          /\ ret' = [ret EXCEPT !.order =
                        InsertedAfter(@, hopper, Add(hopper, pos), index.tree[pos])]
    /\ UNCHANGED <<index, query, search, browse>>
    /\ UNCHANGED gfVars /\ UNCHANGED rjVars

NextTies == HopperAddInOrder

SpecTies == InitTies /\ [][NextTies]_vars

(***************************************************************************)
(* SpecDrain: a circle or box cursor inside the world, with all eight      *)
(* neighbours of its centre cell in the world.  ok(), advance() and        *)
(* fillStack are called in any order, fillStack with the budget of the     *)
(* model or with that of the program; the caller goes on calling advance() *)
(* for as long as a call of it changes anything.                           *)
(***************************************************************************)
\* GeoBrowse::maxPointsHeuristic
FullPointsHeuristic == 300
\* the locations of the documents: in the centre cell and in cells around it
DrainSites ==
    {[x |-> GeoMax \div 2 + 1, y |-> GeoMax \div 2 + 1],
     [x |-> GeoMax \div 2 - 1, y |-> GeoMax \div 2 + 2],
     [x |-> GeoMax \div 2 + CellUnits + 1, y |-> GeoMax \div 2 - 1],
     [x |-> GeoMin, y |-> GeoMin]}
\* the largest number of documents of a collection that is drained
MaxDrainDocs == 2
DrainCollections == CollectionsOf(DrainSites, DrainSites, MaxDrainDocs) \ {<< >>}
\* a circle and a box that reach into all the neighbours of the centre cell,
\* and a small circle on the corner of a centre cell in the middle of the world
DrainQueries ==
    {[kind |-> "circle", startPt |-> [x |-> GeoMax \div 2 + 2, y |-> GeoMax \div 2 + 2],
      maxDistance |-> (CellUnits - 1) * (CellUnits - 1)],
     [kind |-> "circle", startPt |-> [x |-> GeoMax \div 2, y |-> GeoMax \div 2],
      maxDistance |-> 4],
     [kind |-> "box", min |-> [x |-> GeoMax \div 2 - 1, y |-> GeoMax \div 2 - 1],
                      max |-> [x |-> GeoMax \div 2 + CellUnits + 1,
                               y |-> GeoMax \div 2 + CellUnits + 1]]}

InitDrain ==
    /\ IdleRecovery
    /\ \E docs \in DrainCollections :
          index = [docs |-> docs, tree |-> Btree(GetKeys(docs))]
    /\ query \in DrainQueries
    /\ hopper = NoObject /\ search = NoObject /\ browse = NoObject /\ ret = NoObject

\* fillStack( maxPointsHeuristic ) with the value of the program
GeoBrowseFillStackFull ==
    /\ browse # NoObject
    /\ Called("fillStack", browse, Returns(FillStack(browse, FullPointsHeuristic), FALSE))
    /\ UNCHANGED <<index, query, hopper, search>>
    /\ UNCHANGED gfVars /\ UNCHANGED rjVars

NextDrain ==
    \/ GeoCircleBrowseNew
    \/ GeoBoxBrowseNew
    \/ GeoBrowseOk
    \/ GeoBrowseAdvance
    \/ GeoBrowseFillStack
    \/ GeoBrowseFillStackFull

\* a step that is a call of advance()
AdvanceStep == ret'.kind = "ret" /\ ret'.call = "advance"

\* the caller goes on calling advance(): fairness stated as steps of advance()
\* that happen again and again
SpecDrain == InitDrain /\ [][NextDrain]_vars /\ []<><<AdvanceStep>>_vars

(***************************************************************************)
(* SpecWant: the constructor of the box cursor on boxes with corners below *)
(* the world, on its edges, inside it and above it, in either order.       *)
(***************************************************************************)
\* the coordinates of the corners
WantCoordinates ==
    {GeoMin - CellUnits, GeoMin, GeoMax \div 2 - 1, GeoMax, GeoMax + CellUnits}
WantBoxes ==
    {[kind |-> "box", min |-> [x |-> ax, y |-> ay], max |-> [x |-> bx, y |-> by]] :
        ax \in WantCoordinates, ay \in WantCoordinates,
        bx \in WantCoordinates, by \in WantCoordinates}
\* the largest number of documents of the collection
MaxWantDocs == 1
WantCollections == CollectionsOf(DrainSites, DrainSites, MaxWantDocs) \ {<< >>}

InitWant ==
    /\ IdleRecovery
    /\ \E docs \in WantCollections :
          index = [docs |-> docs, tree |-> Btree(GetKeys(docs))]
    /\ query \in WantBoxes
    /\ hopper = NoObject /\ search = NoObject /\ browse = NoObject /\ ret = NoObject

NextWant ==
    \/ GeoBoxBrowseNew
    \/ GeoBoxBrowseNoArea
    \/ GeoBoxBrowseNotInInterval
    \/ GeoBrowseAdvance

SpecWant == InitWant /\ [][NextWant]_vars

(***************************************************************************)
(* SpecCursor: Geo2dType::newCursor on a query.  The query is what         *)
(* newCursor looks at: the first operator of the element of the geo field, *)
(* the name of the operator inside $within, whether the values are objects *)
(* and numWanted.  A name is the sequence of its characters.  The          *)
(* arguments of the operators are well formed, so that the constructors    *)
(* fail on the name of the operator only; ret is the cursor that was made  *)
(* or the code of the exception.                                           *)
(***************************************************************************)
\* numWanted when the caller gave 0
DefaultNumWanted == 100
\* startsWith( s, p )
StartsWith(s, p) == Len(s) >= Len(p) /\ SubSeq(s, 1, Len(p)) = p

NearName == <<"$", "n", "e", "a", "r">>
CenterName == <<"$", "c", "e", "n", "t", "e", "r">>
BoxName == <<"$", "b", "o", "x">>
PolyName == <<"$", "p", "o", "l", "y">>
PolygonName == PolyName \o <<"g", "o", "n">>
SphereSuffix == <<"S", "p", "h", "e", "r", "e">>
\* what follows the stem of a name
NameSuffixes == {<< >>, SphereSuffix, <<"s">>}
\* the names of operators inside $within
WithinNames ==
    {stem \o suffix :
        stem \in {CenterName, BoxName, PolyName, PolygonName,
                  <<"$", "c", "e", "n", "t">>, <<"$", "b", "o">>, <<"$", "w", "i", "n">>},
        suffix \in NameSuffixes}
NearNames == {NearName \o suffix : suffix \in NameSuffixes}
\* the element of the geo field: absent or not an object ("none"), an object
\* whose first operator is neither $near nor $within ("other"), $near, $within
GeoElements ==
    [op : {"none", "other"}, name : {<< >>}, withinIsObj : {TRUE}, argIsObj : {TRUE}]
    \cup [op : {"near"}, name : NearNames, withinIsObj : {TRUE}, argIsObj : {TRUE}]
    \cup [op : {"within"}, name : WithinNames, withinIsObj : BOOLEAN, argIsObj : BOOLEAN]
\* numWanted as the caller gives it
NumWantedGiven == {-2, 0, 3}

Thrown(code) == [kind |-> "uassert", code |-> code]
CursorOf(class, type, numWanted) ==
    [kind |-> "cursor", class |-> class, type |-> type, numWanted |-> numWanted]

\* the first lines of newCursor
NumWanted(given) ==
    IF given < 0 THEN given * (-1)
    ELSE IF given = 0 THEN DefaultNumWanted
    ELSE given

\* case BSONObj::opNEAR
NewNearCursor(e, numWanted) ==
    IF SubSeq(e.name, 6, Len(e.name)) = << >>
    THEN CursorOf("GeoSearchCursor", "GEO_PLAIN", numWanted)
    ELSE IF SubSeq(e.name, 6, Len(e.name)) = SphereSuffix
         THEN CursorOf("GeoSearchCursor", "GEO_SPHERE", numWanted)
    ELSE Thrown(13464)

\* GeoCircleBrowse( g, circle, filter, type ) on a well formed circle
NewGeoCircleBrowse(type, numWanted) ==
    IF type = CenterName THEN CursorOf("GeoCircleBrowse", "GEO_PLAIN", numWanted)
    ELSE IF type = CenterName \o SphereSuffix
         THEN CursorOf("GeoCircleBrowse", "GEO_SPHERE", numWanted)
    ELSE Thrown(13460)

\* a case opWITHIN that takes the names $poly.. for $polygon alone
NewWithinCursorExact(e, numWanted) ==
    IF ~e.withinIsObj THEN Thrown(13057)
    ELSE IF StartsWith(e.name, CenterName)
         THEN IF ~e.argIsObj THEN Thrown(13059)
              ELSE NewGeoCircleBrowse(e.name, numWanted)
    ELSE IF e.name = BoxName
         THEN IF ~e.argIsObj THEN Thrown(13065)
              ELSE CursorOf("GeoBoxBrowse", "GEO_PLAIN", numWanted)
    ELSE IF e.name = PolygonName
         THEN IF ~e.argIsObj THEN Thrown(14029)
              ELSE CursorOf("GeoPolygonBrowse", "GEO_PLAIN", numWanted)
    ELSE Thrown(13058)
\* case BSONObj::opWITHIN
NewWithinCursor(e, numWanted) ==
    IF ~e.withinIsObj THEN Thrown(13057)
    ELSE IF StartsWith(e.name, CenterName)
         THEN IF ~e.argIsObj THEN Thrown(13059)
              ELSE NewGeoCircleBrowse(e.name, numWanted)
    ELSE IF e.name = BoxName
         THEN IF ~e.argIsObj THEN Thrown(13065)
              ELSE CursorOf("GeoBoxBrowse", "GEO_PLAIN", numWanted)
    ELSE IF StartsWith(e.name, PolyName)
         THEN IF ~e.argIsObj THEN Thrown(14029)
              ELSE CursorOf("GeoPolygonBrowse", "GEO_PLAIN", numWanted)
    ELSE Thrown(13058)

\* Geo2dType::newCursor( query, order, numWanted )
NewCursor(e, given) ==
    CASE e.op = "near" -> NewNearCursor(e, NumWanted(given))
      [] e.op = "within" -> NewWithinCursor(e, NumWanted(given))
      [] OTHER -> Thrown(13042)

InitCursor ==
    /\ IdleRecovery
    /\ index = NoIndex
    /\ \E e \in GeoElements, n \in NumWantedGiven :
          query = [kind |-> "find", geo |-> e, numWanted |-> n]
    /\ hopper = NoObject /\ search = NoObject /\ browse = NoObject /\ ret = NoObject

Geo2dTypeNewCursor ==
    /\ query.kind = "find" /\ ret = NoObject
    /\ ret' = NewCursor(query.geo, query.numWanted)
    /\ UNCHANGED <<index, query, hopper, search, browse>>
    /\ UNCHANGED gfVars /\ UNCHANGED rjVars

NextCursor == Geo2dTypeNewCursor

SpecCursor == InitCursor /\ [][NextCursor]_vars

(***************************************************************************)
(* SpecInterrupt: the geoCluster command while the operation is killed.    *)
(* query is the operation that runs; its field killed is the interrupt     *)
(* flag that killCurrentOp.checkForInterrupt() would read.  The loop of    *)
(* run() makes one pass per step, and the flag can be set between passes.  *)
(***************************************************************************)
InitInterrupt ==
    /\ IdleRecovery
    /\ \E docs \in ClusterCollections :
          index = [docs |-> docs, tree |-> Btree(GetKeys(docs))]
    /\ \E box \in ClusterBoxes, g \in GridSizes, d \in BOOLEAN :
          query = [kind |-> "geoCluster", box |-> box, gridSize |-> g,
                   disableCluster |-> d, killed |-> FALSE]
    /\ hopper = NoObject /\ search = NoObject /\ browse = NoObject /\ ret = NoObject

\* the operation is killed while the loop of run() has a pass to make
KillCurrentOp ==
    /\ query.kind = "geoCluster" /\ ~query.killed
    /\ browse # NoObject /\ ret = NoObject
    /\ browse.kind = "cluster"
    /\ Ok(browse.cursor).value
    /\ query' = [query EXCEPT !.killed = TRUE]
    /\ UNCHANGED <<index, hopper, search, browse, ret>>
    /\ UNCHANGED gfVars /\ UNCHANGED rjVars

NextInterrupt ==
    \/ GeoClusterNew
    \/ GeoClusterNoArea
    \/ GeoClusterNotInInterval
    \/ GeoClusterLoop
    \/ GeoClusterReturn
    \/ KillCurrentOp

SpecInterrupt == InitInterrupt /\ [][NextInterrupt]_vars

(***************************************************************************)
(* What the journal read so far says, computed from the history variable   *)
(* journal alone: the sections of a file, their footers and their entries. *)
(***************************************************************************)
IsWholeFooter(t) == t.op = "Footer" /\ t.cut = 0

\* the indexes of the tokens of q that start the first section or end a section
Boundaries(q) ==
    SortedKeys({k \in 1 .. Len(q) : q[k].op = "Header" \/ IsWholeFooter(q[k])})

\* section s of q is closed by a whole footer
SectionClosed(q, s) == s >= 1 /\ s + 1 <= Len(Boundaries(q))
SectionFooter(q, s) == q[Boundaries(q)[s + 1]]
SectionBody(q, s) == SubSeq(q, Boundaries(q)[s] + 1, Boundaries(q)[s + 1] - 1)

IsOperation(t) == t.op \in {"Basic", "ObjAppend", "FileCreated", "DropDb"}

\* the writes and operations of section s of q, in the order of the file
SectionOperations(q, s) == SelectSeq(SectionBody(q, s), IsOperation)

\* the footer of section s of q carries the digest of the section
SectionVerified(q, s) ==
    /\ SectionClosed(q, s)
    /\ SectionFooter(q, s).hash = SectionDigest(SectionBody(q, s))

\* the name of the nearest DbContext among the first n tokens of q
RECURSIVE LastContext(_, _)
LastContext(q, n) ==
    IF n = 0 THEN NullPtr
    ELSE IF q[n].op = "DbContext" THEN q[n].db
    ELSE LastContext(q, n - 1)

\* the database a write at index pos of q is addressed to
ExpectedDb(q, pos) ==
    IF q[pos].op = "Basic" /\ q[pos].local THEN "local" ELSE LastContext(q, pos - 1)

\* the last token of q says the file ends inside a section
TruncatedInSection(q) ==
    /\ q # << >>
    /\ \/ q[Len(q)].op = "Eof"
       \/ q[Len(q)].op = "Footer" /\ q[Len(q)].cut # 0
       \/ q[Len(q)].op = "DbContext" /\ q[Len(q)].cut # 0

\* the file ends inside a section at a place where every read is bounds-checked
CutAtCheckedRead(q) ==
    /\ q # << >>
    /\ \/ q[Len(q)].op = "Eof"
       \/ q[Len(q)].op = "Footer" /\ q[Len(q)].cut = 2

\* a precedes b in journal order: file, then section, then place in the section
AtBefore(a, b) ==
    \/ a[1] < b[1]
    \/ a[1] = b[1] /\ a[2] < b[2]
    \/ a[1] = b[1] /\ a[2] = b[2] /\ a[3] < b[3]

\* the applied element a touches byte ofs of file name
Covers(a, name, ofs) ==
    CASE a.e.kind = "e" ->
            /\ name = FileName(a.e.dbName, a.e.tok.fileNo)
            /\ ofs \in a.e.tok.ofs .. a.e.tok.ofs + Len(a.e.tok.data) - 1
      [] a.e.kind = "d" ->
            /\ name = FileName("local", a.e.tok.dstFileNo)
            /\ ofs \in a.e.tok.dstOfs - 3 .. a.e.tok.dstOfs + a.e.tok.len
      [] a.e.tok.op = "DropDb" -> name[1] = a.e.tok.db
      [] OTHER -> name = FileName(a.e.tok.db, a.e.tok.fileNo)

CoveredAfter(k, name, ofs) ==
    \E l \in k + 1 .. Len(applied) : Covers(applied[l], name, ofs)

PtrErrors == {"13534", "13543"}

InCurrentSection(a) == a.at[1] = i /\ a.at[2] = sect

NumberOfFile(f) == NumberOf(files[f])

(***************************************************************************)
(* Properties of recovery                                                  *)
(***************************************************************************)

\* C1: the entries of a section are applied only after its footer was reached
\* and the digest in the footer matches the section; a section whose digest
\* does not match (13594) or that the end of the file cuts short leaves the
\* destination files as they were when the section before it was done.
C1_OnlyVerifiedSectionsApplied ==
    /\ \A k \in 1 .. Len(applied) :
          SectionVerified(journal[applied[k].at[1]], applied[k].at[2])
    /\ error = "13594" =>
          /\ disk = boundary
          /\ \A k \in 1 .. Len(applied) : ~InCurrentSection(applied[k])
    /\ (journal # << >> /\ TruncatedInSection(journal[Len(journal)])) =>
          /\ disk = boundary
          /\ \A k \in 1 .. Len(applied) :
                ~(applied[k].at[1] = Len(journal) /\ applied[k].at[2] = sect)

\* a first section was applied and the digest of a later one did not match
C1_Witness ==
    /\ pc = "done" /\ error = "13594"
    /\ applied # << >>
    /\ disk # InitDisk

\* C2 as the specification states it: when ptr() fails with 13534 or 13543 for
\* an entry of a verified section, no entry of that section has modified a
\* destination file (the files are as they were at the end of the section
\* before).
C2_SectionAllOrNothing ==
    error \in PtrErrors => disk = boundary

\* C3 as the specification states it: when the last journal file ends inside a
\* section, recovery completes successfully with the destination files as they
\* are at the end of the last whole section.
C3_TruncationIsSectionEnd ==
    ( /\ pc \in {"done", "crashed"}
      /\ ~durScanOnly
      /\ files # << >>
      /\ Len(journal) = Len(files)
      /\ TruncatedInSection(journal[Len(files)]) )
    => ( /\ pc = "done" /\ error = "none" /\ okToCleanUp
         /\ disk = boundary )

\* C4: the entries are applied in the order of the journal (files by ascending
\* number, sections in file order, entries in section order), none skipped, so
\* of two writes to one byte the later one of the journal is what the file holds.
C4_ReplayInJournalOrder ==
    /\ \A k \in 1 .. Len(applied) :
          LET a == applied[k]
              q == journal[a.at[1]]
          IN  /\ SectionClosed(q, a.at[2])
              /\ a.at[3] \in 1 .. Len(SectionOperations(q, a.at[2]))
              /\ a.e.tok = SectionOperations(q, a.at[2])[a.at[3]]
              /\ \A f \in 1 .. a.at[1], s \in 1 .. MaxSections :
                    SectionClosed(journal[f], s) =>
                        \A idx \in 1 .. Len(SectionOperations(journal[f], s)) :
                            AtBefore(<<f, s, idx>>, a.at) =>
                                \E j \in 1 .. k - 1 : applied[j].at = <<f, s, idx>>
    /\ \A j, k \in 1 .. Len(applied) :
          j < k => /\ AtBefore(applied[j].at, applied[k].at)
                   /\ NumberOfFile(applied[j].at[1]) <= NumberOfFile(applied[k].at[1])
    /\ (pc = "done" /\ error = "none" /\ ~durScanOnly) =>
          \A f \in 1 .. Len(journal), s \in 1 .. MaxSections :
              SectionClosed(journal[f], s) =>
                  \A idx \in 1 .. Len(SectionOperations(journal[f], s)) :
                      \E k \in 1 .. Len(applied) : applied[k].at = <<f, s, idx>>
    /\ \A j, k \in 1 .. Len(applied) :
          (j < k /\ applied[j].e.kind = "e" /\ applied[k].e.kind = "e") =>
              \A ofs \in 0 .. FileLen - 1 :
                  ( /\ Covers(applied[j], applied[k].name, ofs)
                    /\ Covers(applied[k], applied[k].name, ofs)
                    /\ ~CoveredAfter(k, applied[k].name, ofs) )
                  => disk[applied[k].name].data[ofs + 1] =
                        applied[k].e.tok.data[ofs - applied[k].e.tok.ofs + 1]

\* two writes of one journal file hit the same byte and an entry of the second
\* journal file was applied after them
C4_Witness ==
    /\ pc = "done" /\ error = "none"
    /\ Len(applied) >= 3
    /\ applied[Len(applied)].at[1] = 2
    /\ \E j, k \in 1 .. Len(applied) :
          /\ j < k
          /\ applied[j].e.kind = "e" /\ applied[k].e.kind = "e"
          /\ applied[j].e.tok # applied[k].e.tok
          /\ \E ofs \in 0 .. FileLen - 1 :
                /\ Covers(applied[j], applied[k].name, ofs)
                /\ Covers(applied[k], applied[k].name, ofs)

\* C5: after a basic write is applied, the bytes of its destination file at
\* ofs .. ofs+len-1 are the payload of the entry, unless a later applied entry
\* touches them; a byte that no applied entry touches is as it was before
\* recovery.
C5_BasicWriteRoundTrip ==
    /\ \A k \in 1 .. Len(applied) :
          applied[k].e.kind = "e" =>
              LET t == applied[k].e.tok
                  name == FileName(applied[k].e.dbName, t.fileNo)
              IN  \A b \in 1 .. Len(t.data) :
                      \/ CoveredAfter(k, name, t.ofs + b - 1)
                      \/ /\ disk[name].exists
                         /\ t.ofs + b <= Len(disk[name].data)
                         /\ disk[name].data[t.ofs + b] = t.data[b]
    /\ \A name \in FileNames, ofs \in 0 .. FileLen - 1 :
          (\A k \in 1 .. Len(applied) : ~Covers(applied[k], name, ofs)) =>
              /\ disk[name].exists = InitDisk[name].exists
              /\ Len(disk[name].data) = Len(InitDisk[name].data)
              /\ ofs < Len(disk[name].data) =>
                    disk[name].data[ofs + 1] = InitDisk[name].data[ofs + 1]

\* recovery is over, a two-byte write is in its file and the byte before it and
\* the byte after it are as they were
C5_Witness ==
    /\ pc = "done" /\ error = "none"
    /\ \E k \in 1 .. Len(applied) :
          /\ applied[k].e.kind = "e"
          /\ Len(applied[k].e.tok.data) = 2
          /\ applied[k].e.tok.ofs >= 1
          /\ ~CoveredAfter(k, applied[k].name, applied[k].e.tok.ofs)
          /\ ReadBytes(disk, applied[k].name, applied[k].e.tok.ofs, 2)
                = applied[k].e.tok.data
          /\ \A ofs \in {applied[k].e.tok.ofs - 1, applied[k].e.tok.ofs + 2} :
                /\ \A l \in 1 .. Len(applied) : ~Covers(applied[l], applied[k].name, ofs)
                /\ disk[applied[k].name].data[ofs + 1]
                      = InitDisk[applied[k].name].data[ofs + 1]

\* C6: when a journal file that is not the last one ends abruptly, recovery
\* fails with 13535, no later journal file is processed, no journal file is
\* removed and okToCleanUp stays unset; an abrupt end of the last journal file
\* does not by itself make recovery fail.
C6_AbruptEndOnlyInLastFile ==
    /\ \A f \in 1 .. Len(journal) :
          (f < Len(files) /\ TruncatedInSection(journal[f])) =>
              /\ Len(journal) = f
              /\ i = f
              /\ journalPresent /\ ~okToCleanUp
              /\ CutAtCheckedRead(journal[f]) =>
                    \/ pc = "go_check" /\ abruptEnd /\ error = "none"
                    \/ pc \in {"unwind", "done"} /\ error = "13535"
    /\ (abruptEnd /\ i < Len(files)) =>
          \/ pc = "go_check" /\ error = "none"
          \/ pc \in {"unwind", "done"} /\ error = "13535"
    /\ ( /\ pc = "done"
         /\ files # << >>
         /\ Len(journal) = Len(files)
         /\ CutAtCheckedRead(journal[Len(files)]) ) =>
          /\ error = (IF durScanOnly THEN "13545" ELSE "none")
          /\ ~durScanOnly => okToCleanUp /\ ~journalPresent

\* recovery of two journal files failed with 13535 after the first was cut short
C6_Witness ==
    /\ pc = "done" /\ error = "13535"
    /\ Len(files) = 2 /\ Len(journal) = 1
    /\ CutAtCheckedRead(journal[1])
    /\ applied # << >>

\* C7: the journal files are removed only after every journal file was processed
\* and the destination files were flushed and closed, go() sets okToCleanUp only
\* after the journal files were removed, and on a run that ends in an error the
\* journal files are never removed and okToCleanUp is never set.  (recover()
\* sets okToCleanUp itself when it finds no journal file: go() is not called.)
C7_CleanUpOrder ==
    /\ ~journalPresent =>
          /\ i > Len(files) /\ Len(journal) = Len(files)
          /\ mfiles = << >> /\ fileToPtr = NoMappings
          /\ dirty = {}
          /\ error = "none" /\ ~durScanOnly
    /\ (okToCleanUp /\ files # << >>) => ~journalPresent
    /\ (error # "none" \/ pc = "crashed") => journalPresent /\ ~okToCleanUp

\* recovery of two journal files applied a write and returned normally
C7_Witness ==
    /\ pc = "done" /\ error = "none"
    /\ okToCleanUp /\ ~journalPresent
    /\ Len(journal) = 2
    /\ \E k \in 1 .. Len(applied) : applied[k].map # 0

\* the numbers of the journal files of the directory
JournalNumbers == {dir[p].u : p \in {q \in 1 .. Len(dir) : dir[q].journal}}

\* two file names of the directory parse to the same number
HasDuplicate ==
    \E p, q \in 1 .. Len(dir) :
        p # q /\ dir[p].journal /\ dir[q].journal /\ dir[p].u = dir[q].u

\* a number of the directory other than the least has no predecessor in it
HasGap ==
    \E u \in JournalNumbers :
        /\ \E v \in JournalNumbers : v < u
        /\ u - 1 \notin JournalNumbers

\* C8 as the specification states it: what getFiles returns is in strictly
\* ascending order of journal number, each number the one before it plus 1; a
\* directory with a number that occurs twice fails (with 13531 when the second
\* occurrence is reached) and a directory whose numbers have a gap fails with
\* 13532.
C8_FilesAscendingConsecutive ==
    /\ gpc = "returned" =>
          \A k \in 1 .. Len(files) - 1 : NumberOfFile(k + 1) = NumberOfFile(k) + 1
    /\ (gpc # "iter" /\ HasDuplicate) => gpc \in {"13531", "13532"}
    /\ gpc = "13531" => HasDuplicate
    /\ (gpc # "iter" /\ HasGap /\ ~HasDuplicate) => gpc = "13532"

\* C9: a basic write or an ObjAppend that is not flagged for the local database
\* is attributed to the database of the nearest DbContext entry before it; a
\* write flagged for the local database is attributed to "local" and the
\* writes after it are still attributed to that DbContext.
C9_StickyContext ==
    /\ \A k \in 1 .. Len(entries) :
          LET e == entries[k]
              q == journal[e.at[1]]
          IN  /\ e.tok = q[e.pos]
              /\ e.kind \in {"e", "d"} => e.dbName = ExpectedDb(q, e.pos)
    /\ \A k \in 1 .. Len(applied) :
          LET a == applied[k]
              q == journal[a.at[1]]
          IN  /\ a.e.tok = q[a.e.pos]
              /\ a.e.kind = "e" =>
                    a.name = FileName(ExpectedDb(q, a.e.pos), a.e.tok.fileNo)
              /\ a.e.kind = "d" =>
                    /\ a.src = FileName(ExpectedDb(q, a.e.pos), a.e.tok.srcFileNo)
                    /\ a.name = FileName("local", a.e.tok.dstFileNo)

\* after a DbContext a write flagged for the local database went to "local" and
\* the write after it went to the database of the DbContext
C9_Witness ==
    /\ pc = "done"
    /\ \E j, k \in 1 .. Len(applied) :
          /\ j < k
          /\ applied[j].at[1] = applied[k].at[1]
          /\ applied[j].e.kind = "e" /\ applied[j].e.tok.local
          /\ applied[j].name[1] = "local"
          /\ LastContext(journal[applied[j].at[1]], applied[j].e.pos - 1) \in ContextNames
          /\ applied[k].e.kind = "e" /\ ~applied[k].e.tok.local
          /\ applied[k].e.pos = applied[j].e.pos + 1
          /\ applied[k].name[1]
                = LastContext(journal[applied[j].at[1]], applied[j].e.pos - 1)

\* C10: when an operation that declares needFilesClosed is applied, the cache
\* of mapped files is flushed and dropped before its replay() runs, and a
\* write applied after it goes through a mapping opened after it.
C10_FilesClosedBeforeReplay ==
    /\ ( /\ pc = "replay"
         /\ NeedFilesClosed(EntryAt(entries, ai).tok, disk) ) =>
          /\ fileToPtr = NoMappings
          /\ mfiles = << >>
          /\ dirty = {}
    /\ \A j, k \in 1 .. Len(applied) :
          (j < k /\ applied[j].needClosed /\ applied[k].map # 0) =>
              applied[k].map > applied[j].nmaps

\* a file written before an operation that needs the files closed was written
\* again after it
C10_Witness ==
    /\ pc = "done" /\ error = "none"
    /\ \E h, j, k \in 1 .. Len(applied) :
          /\ h < j /\ j < k
          /\ applied[j].needClosed
          /\ applied[h].map # 0 /\ applied[k].map # 0
          /\ applied[h].name = applied[k].name
          /\ applied[k].map # applied[h].map

\* every journal file was read to a good end: a whole last section, or for the
\* last file an end that the BufReader met
ScanCompleted ==
    /\ Len(journal) = Len(files)
    /\ \A f \in 1 .. Len(journal) :
          \/ journal[f][Len(journal[f])].op = "End"
          \/ f = Len(files) /\ CutAtCheckedRead(journal[f])

\* C11: the destination mappings a RecoveryJob opened are released only by a
\* close() that has flushed them: no step drops mappings and leaves unflushed
\* data, unflushed data exists only while mappings are held, and when the job
\* is gone (after a normal return, after 13535, after an operation that needs
\* the files closed, after an exception unwound go()) nothing is held and
\* nothing is unflushed.
C11_FlushBeforeRelease ==
    /\ [](dirty # {} => mfiles # << >>)
    /\ [](pc = "done" => mfiles = << >> /\ fileToPtr = NoMappings /\ dirty = {})
    /\ [][(mfiles # << >> /\ mfiles' = << >>) => dirty' = {}]_vars

\* a checksum mismatch unwound go() while files written by an earlier section
\* were still mapped, and the destructor released them
C11_Witness ==
    /\ pc = "done" /\ error = "13594"
    /\ \E k \in 1 .. Len(applied) : applied[k].map # 0
    /\ \A k \in 1 .. Len(applied) : ~applied[k].needClosed
    /\ disk # InitDisk

\* what scan-only mode leaves untouched, and how the scan ends
ScanOnlyOutcome ==
        /\ disk = InitDisk /\ boundary = InitDisk
        /\ nmaps = 0 /\ mfiles = << >> /\ fileToPtr = NoMappings /\ dirty = {}
        /\ applied = << >>
        /\ journalPresent /\ ~okToCleanUp
        /\ pc = "done" => error # "none"
        /\ (pc = "done" /\ ScanCompleted) => error = "13545"
        /\ error = "13545" =>
              /\ Len(journal) = Len(files)
              /\ \A f \in 1 .. Len(journal) :
                    \/ journal[f][Len(journal[f])].op = "End"
                    \/ f = Len(files) /\ TruncatedInSection(journal[f])
              /\ \A f \in 1 .. Len(journal), s \in 1 .. MaxSections :
                    SectionClosed(journal[f], s) => SectionVerified(journal[f], s)
        /\ \A f \in 1 .. Len(journal) :
              ( /\ journal[f][Len(journal[f])].op = "Footer"
                /\ journal[f][Len(journal[f])].cut = 0
                /\ ~CheckHash(journal[f][Len(journal[f])],
                              SectionTokens(SubSeq(journal[f], 1, Len(journal[f]) - 1))) )
              => error = "13594"

\* C12: in scan-only mode the recovery of a journal (go(), which recover() calls
\* when it finds a journal file) reads every journal file and checks every
\* section digest, writes no byte of a destination file, opens no destination
\* file and replays no operation; a scan that reads every file to its end
\* fails with 13545, the journal files stay and okToCleanUp stays unset.
\* Without a journal directory or a journal file there is nothing to scan:
\* recover() touches nothing and returns with okToCleanUp set and no error.
C12_ScanOnlyTouchesNothing ==
    durScanOnly =>
        /\ files # << >> => ScanOnlyOutcome
        /\ files = << >> =>
              /\ disk = InitDisk /\ nmaps = 0 /\ applied = << >>
              /\ journalPresent /\ error = "none"
              /\ okToCleanUp <=> pc = "done"

\* a scan of two journal files with a write and an operation in them ended
\* with 13545
C12_Witness ==
    /\ durScanOnly /\ pc = "done" /\ error = "13545"
    /\ Len(journal) = 2
    /\ \E f \in 1 .. 2 : \E k \in 1 .. Len(journal[f]) : journal[f][k].op = "Basic"
    /\ \E f \in 1 .. 2 : \E k \in 1 .. Len(journal[f]) : journal[f][k].op = "DropDb"

(***************************************************************************)
(* Properties of the nearest-point search.                                 *)
(***************************************************************************)
\* the hoppers there are: the one add is called on, the one of the GeoSearch
Hoppers ==
    (IF hopper.kind = "hopper" THEN {hopper} ELSE {}) \cup
    (IF search.kind = "search" THEN {search.hopper} ELSE {})

\* the least exact distance (squared) from near to a location of document d
NearestOf(near, d) ==
    CHOOSE n \in {DistanceSq(near, l) : l \in index.docs[d].locs} :
        \A l \in index.docs[d].locs : n <= DistanceSq(near, l)

\* C13: after any sequence of GeoHopper::add calls, also those GeoSearch::exec
\* makes, the held points are in non-decreasing order of exact distance, and the
\* exact distance of every held point, which is the distance of a location of
\* its document, is within maxDistance (inclusive)
C13_HeldSortedWithinMaxDistance ==
    \A a \in Hoppers :
        /\ \A k \in 1 .. Len(a.points) - 1 :
               a.points[k].exactDistance <= a.points[k + 1].exactDistance
        /\ \A k \in 1 .. Len(a.points) :
               /\ a.points[k].exactDistance <= a.maxDistance
               /\ \E l \in index.docs[a.points[k].loc].locs :
                      a.points[k].exactDistance = DistanceSq(a.near, l)

\* three keys were accepted, the two points held differ in distance, the
\* farther one is at maxDistance exactly
C13_Witness ==
    /\ hopper.kind = "hopper"
    /\ hopper.found >= 3
    /\ Len(hopper.points) = 2
    /\ hopper.points[1].exactDistance < hopper.points[2].exactDistance
    /\ hopper.points[2].exactDistance = hopper.maxDistance

\* the documents that satisfy the filter and have a location within maxDistance
\* of the query point
Candidates ==
    {d \in DOMAIN index.docs :
        /\ index.docs[d].good
        /\ \E l \in index.docs[d].locs :
               DistanceSq(query.startPt, l) <= query.maxDistance}

\* the documents GeoSearchCursor iterates over
Returned == {search.hopper.points[k].loc : k \in 1 .. Len(search.hopper.points)}

\* C14: a nearest-point search for k documents returns exactly min(k, c)
\* results, c the number of candidates, also when documents have several
\* locations
C14_ReturnsMinOfWantedAndCandidates ==
    (search.kind = "search" /\ search.phase # 0) =>
        Len(search.hopper.points) =
            (IF Cardinality(Candidates) < query.numWanted
             THEN Cardinality(Candidates) ELSE query.numWanted)

\* C15: the results of a nearest-point search are the nearest ones: no candidate
\* that is left out has a least exact distance strictly smaller than the exact
\* distance of a returned document
C15_ReturnedAreNearest ==
    (search.kind = "search" /\ search.phase # 0) =>
        \A d \in Candidates \ Returned :
            \A k \in 1 .. Len(search.hopper.points) :
                NearestOf(query.startPt, d) >= search.hopper.points[k].exactDistance

\* C16: a document is held at most once, whichever of its keys is scanned first
\* and however many of them are scanned, and the distance recorded for it is the
\* least exact distance over its locations that lie within maxDistance
C16_HeldOnceAtLeastDistance ==
    \A a \in Hoppers :
        /\ \A j, k \in 1 .. Len(a.points) : a.points[j].loc = a.points[k].loc => j = k
        /\ \A k \in 1 .. Len(a.points) :
               LET within == {l \in index.docs[a.points[k].loc].locs :
                                 DistanceSq(a.near, l) <= a.maxDistance}
               IN  /\ \E l \in within : a.points[k].exactDistance = DistanceSq(a.near, l)
                   /\ \A l \in within : a.points[k].exactDistance <= DistanceSq(a.near, l)

\* both keys of a document of two locations within maxDistance were accepted;
\* it is held once, at the distance of the nearer location
C16_Witness ==
    /\ hopper.kind = "hopper"
    /\ \E k \in 1 .. Len(hopper.points) :
           LET d == hopper.points[k].loc
           IN  /\ \A pos \in 1 .. Len(index.tree) :
                      index.tree[pos].recordLoc = d => pos \in hopper.seen
               /\ Cardinality({pos \in 1 .. Len(index.tree) :
                                  index.tree[pos].recordLoc = d}) = 2
               /\ hopper.found >= 2
               /\ \A l \in index.docs[d].locs : DistanceSq(hopper.near, l) <= hopper.maxDistance
               /\ \E l \in index.docs[d].locs :
                      DistanceSq(hopper.near, l) > hopper.points[k].exactDistance

(***************************************************************************)
(* Properties of the region cursors.                                       *)
(***************************************************************************)
\* the region asked for holds the location, its border included
InRegion(l) ==
    IF query.kind = "circle" THEN DistanceSq(query.startPt, l) <= query.maxDistance
    ELSE Inside(FixBox(query), l)

\* the documents the cursor has emitted, in order
EmittedDocs == IF ret.kind = "ret" THEN ret.emitted ELSE << >>

\* C17: a region cursor never emits a document twice, also when several
\* locations of the document lie in the region, when its keys are met in
\* different neighbour cells, and when min and max visit the same key
C17_NeverEmitsTwice ==
    \A j, k \in 1 .. Len(EmittedDocs) : EmittedDocs[j] = EmittedDocs[k] => j = k

\* the cursor is done; a document has two locations in the region whose keys,
\* one in the centre cell and one in a neighbour cell, were both accepted, and
\* it was emitted
C17_Witness ==
    /\ ret.kind = "ret" /\ browse.state = "DONE"
    /\ browse.neighbor > 0
    /\ \E d \in DOMAIN index.docs :
           /\ \E k \in 1 .. Len(EmittedDocs) : EmittedDocs[k] = d
           /\ \A l \in index.docs[d].locs : InRegion(l)
           /\ browse.found >= 2
           /\ \E p, q \in browse.seen :
                  /\ index.tree[p].recordLoc = d /\ index.tree[q].recordLoc = d
                  /\ HasPrefix(index.tree[p].key, browse.centerPrefix)
                  /\ ~HasPrefix(index.tree[q].key, browse.centerPrefix)

\* the documents that satisfy the filter and have a location in the region
Matching ==
    {d \in DOMAIN index.docs :
        index.docs[d].good /\ \E l \in index.docs[d].locs : InRegion(l)}

\* C18: when ok() has returned false, the documents emitted are exactly the
\* indexed documents that satisfy the filter and have at least one location
\* exactly inside the region: none outside is emitted, none inside is missed
C18_EmitsExactlyTheRegion ==
    (ret.kind = "ret" /\ ret.call \in {"new", "ok"} /\ ~ret.value) =>
        {EmittedDocs[k] : k \in 1 .. Len(EmittedDocs)} = Matching

\* the cursor has neither a current document nor a queued one
Drained == browse.cur = 0 /\ browse.stack = << >>

\* C19: DONE is absorbing: in DONE a call of fillStack changes neither _state,
\* _cur, the queue nor the tree locations, and when the cursor is drained
\* every call of ok() and advance() returns false and leaves it so
C19_DoneIsAbsorbing ==
    [][(browse # NoObject /\ browse.state = "DONE") =>
           /\ browse'.state = "DONE"
           /\ ret'.call = "fillStack" => browse' = browse
           /\ (Drained /\ ret'.call \in {"ok", "advance"}) =>
                  (browse' = browse /\ ~ret'.value)]_vars

\* advance() has returned false after the cursor emitted a document, and
\* ok() was called then and returned false
C19_Witness ==
    /\ ret.kind = "ret" /\ browse.state = "DONE" /\ Drained
    /\ Len(ret.emitted) >= 2
    /\ ret.before = [call |-> "advance", value |-> FALSE]
    /\ ret.call = "ok" /\ ~ret.value

\* C20: ok() is idempotent: a call of ok() that follows a call of ok() (the
\* one of the constructor too), with no advance() between them, returns the
\* same value and changes nothing of the cursor
C20_OkIsIdempotent ==
    [][(ret.kind = "ret" /\ ret.call \in {"new", "ok"} /\ ret'.call = "ok") =>
           (browse' = browse /\ ret'.value = ret.value)]_vars

\* ok() was called twice in a row and returned true, in the middle of the
\* scan, with documents queued
C20_Witness ==
    /\ ret.kind = "ret"
    /\ ret.call = "ok" /\ ret.value
    /\ ret.before = [call |-> "ok", value |-> TRUE]
    /\ browse.state = "DOING_EXPAND" /\ browse.stack # << >>

\* C21: a region cursor emits the documents in the order in which
\* GeoAccumulator::add accepted them: the documents that have been current,
\* followed by the queue, are the accepted documents in their order, however
\* fillStack is called between the calls of advance.
C21_EmitsInArrivalOrder ==
    ret.kind = "ret" => EmittedDocs \o browse.stack = browse.accepted

\* three documents were accepted and were current in that order; the call
\* before the advance that made the third one current was a fillStack
C21_Witness ==
    /\ ret.kind = "ret" /\ ret.call = "advance" /\ ret.value
    /\ ret.before.call = "fillStack"
    /\ Len(EmittedDocs) = 3
    /\ EmittedDocs = browse.accepted
    /\ browse.cur = EmittedDocs[3]
    /\ EmittedDocs[1] # EmittedDocs[2] /\ EmittedDocs[2] # EmittedDocs[3]

Max2(a, b) == IF a > b THEN a ELSE b
Min2(a, b) == IF a < b THEN a ELSE b
\* the length two intervals have in common
Common(amin, amax, bmin, bmax) == Max2(0, Min2(amax, bmax) - Max2(amin, bmin))
\* the area two boxes have in common
CommonArea(a, b) ==
    Common(a.min.x, a.max.x, b.min.x, b.max.x) * Common(a.min.y, a.max.y, b.min.y, b.max.y)

\* C22: for two boxes with min <= max on both axes and an area, Box::intersects
\* returns a value of [0, 1] that is the common area divided by the average of
\* the two areas, and 0 exactly when the boxes have no area in common, also
\* when one box lies strictly inside the other.
C22_IntersectsIsRatio ==
    ret.kind = "ratio" =>
        /\ ret.value.num >= 0 /\ ret.value.num <= ret.value.den
        /\ ret.value.num * (Area(query.a) + Area(query.b))
              = 2 * CommonArea(query.a, query.b) * ret.value.den
        /\ ret.value.num = 0 <=> CommonArea(query.a, query.b) = 0

\* C23: for every pair of unsigned axis values (x, y) hashed at full width,
\* unhash_slow and unhash_fast both return exactly (x, y); the bit-by-bit and
\* the table-driven decoder agree on the hash of every input.
C23_RoundTrip ==
    /\ ret.kind = "unhash" => ret.value = [x |-> query.x, y |-> query.y]
    /\ query.kind = "xy" =>
          UnhashFast(GeoHashXY(query.x, query.y)) = UnhashSlow(GeoHashXY(query.x, query.y))
\* the table-driven decoder has returned a pair whose two bytes of the word
\* differ and whose axes differ
C23_Witness ==
    /\ ret.kind = "unhash" /\ ret.how = "fast"
    /\ ret.value = [x |-> query.x, y |-> query.y]
    /\ query.x # query.y
    /\ ByteOf(GeoHashXY(query.x, query.y), 0) # ByteOf(GeoHashXY(query.x, query.y), 1)
    /\ query.x >= 128

\* the positions of the fields "2d" of a key pattern
Geo2dFields(kp) == {k \in 1 .. Len(kp) : kp[k].geo2d}
\* the first field "2d" that follows another field "2d" or a companion field, 0 if none
FirstBadField(kp) ==
    IF \E k \in Geo2dFields(kp) : k > 1
    THEN CHOOSE k \in Geo2dFields(kp) : k > 1 /\ \A j \in Geo2dFields(kp) : j > 1 => k <= j
    ELSE 0
\* the outcome the key pattern alone asks for: 0, 13022, 13023 or 13024
KeyPatternCode(kp) ==
    IF FirstBadField(kp) = 0
    THEN IF Geo2dFields(kp) = {} THEN 13024 ELSE 0
    ELSE IF \E j \in Geo2dFields(kp) : j < FirstBadField(kp) THEN 13022 ELSE 13023

\* C24: the construction of a 2d index type succeeds only when the key pattern
\* has exactly one field "2d" and that field is the first; a second field "2d"
\* fails with 13022, a field "2d" after a companion field with 13023, and a key
\* pattern with no field "2d" with 13024.
C24_KeyPatternChecked ==
    ret.kind = "type" =>
        /\ ret.value.code = 0 =>
              Geo2dFields(query.keyPattern) = {1}
        /\ KeyPatternCode(query.keyPattern) # 0 =>
              ret.value.code = KeyPatternCode(query.keyPattern)

\* the elements of the array of document d that are inside the box asked for
InBoxLocs(d) ==
    {k \in 1 .. Len(index.docs[d].array) : Inside(browse.cursor.want, index.docs[d].array[k])}
RECURSIVE SumInBox(_)
\* the number of locations inside the box of a sequence of documents
SumInBox(ds) == IF ds = << >> THEN 0 ELSE Cardinality(InBoxLocs(Head(ds))) + SumInBox(Tail(ds))
RECURSIVE SumCounts(_)
\* the sum of the counts of a sequence of clusters
SumCounts(cs) == IF cs = << >> THEN 0 ELSE Head(cs).count + SumCounts(Tail(cs))

\* C25: with clustering enabled the counts of the clusters built add up to the
\* number of locations inside the box of the documents the cursor emitted, no
\* document being emitted twice; in the result a cluster of count 1 is a marker
\* and not in clusters, a cluster of count >= 2 is in clusters only, and the
\* markers plus the counts of the clusters of the result give the same number.
C25_EveryPointOnce ==
    (browse # NoObject /\ browse.kind = "cluster" /\ browse.needCluster) =>
        /\ SumCounts(browse.clusters) = SumInBox(browse.emitted)
        /\ \A j, k \in 1 .. Len(browse.emitted) : browse.emitted[j] = browse.emitted[k] => j = k
        /\ \A k \in 1 .. Len(browse.clusters) : browse.clusters[k].count >= 1
        /\ ret.kind = "geoCluster" =>
              /\ \A k \in 1 .. Len(ret.clusters) : ret.clusters[k].count >= 2
              /\ Len(ret.markers) =
                    Cardinality({k \in 1 .. Len(browse.clusters) : browse.clusters[k].count = 1})
              /\ Len(ret.markers) + SumCounts(ret.clusters) = SumInBox(browse.emitted)
              /\ Len(ret.clusters) =
                    Cardinality({k \in 1 .. Len(browse.clusters) : browse.clusters[k].count >= 2})
\* a result with a marker and a cluster of three points, from three documents
\* of which one has two locations inside the box
C25_Witness ==
    /\ ret.kind = "geoCluster" /\ browse.needCluster
    /\ Len(ret.markers) = 1 /\ Len(ret.clusters) = 1
    /\ ret.clusters[1].count = 3
    /\ Len(browse.emitted) = 3

\* the name of the nearest DbContext before index pos of q in the section that
\* holds pos; NullPtr when the section has none before pos
RECURSIVE SectionContext(_, _)
SectionContext(q, n) ==
    IF n = 0 \/ q[n].op = "Header" \/ IsWholeFooter(q[n]) THEN NullPtr
    ELSE IF q[n].op = "DbContext" THEN q[n].db
    ELSE SectionContext(q, n - 1)

\* C26: the sticky database context is scoped to one section: a basic write
\* or an ObjAppend is never attributed to a database named by a DbContext
\* entry of an earlier section.
C26_ContextScopedToSection ==
    /\ \A k \in 1 .. Len(entries) :
          LET e == entries[k]
              q == journal[e.at[1]]
          IN  (e.kind = "d" \/ (e.kind = "e" /\ ~e.tok.local)) =>
                  e.dbName = SectionContext(q, e.pos - 1)
    /\ \A k \in 1 .. Len(applied) :
          LET a == applied[k]
              q == journal[a.at[1]]
          IN  /\ (a.e.kind = "e" /\ ~a.e.tok.local) =>
                    a.name = FileName(SectionContext(q, a.e.pos - 1), a.e.tok.fileNo)
              /\ a.e.kind = "d" =>
                    a.src = FileName(SectionContext(q, a.e.pos - 1), a.e.tok.srcFileNo)

\* C27: the outcome of getFiles depends only on the set of journal file
\* names: for a directory whose journal files are numbered contiguously (no
\* number twice, no gap), getFiles succeeds and returns the files sorted by
\* number, whatever the order in which the directory iterator yields them.
C27_OrderIndependent ==
    (gpc # "iter" /\ ~HasDuplicate /\ ~HasGap) =>
        /\ gpc = "returned"
        /\ \A k \in 1 .. Len(files) - 1 : NumberOfFile(k) < NumberOfFile(k + 1)
        /\ {NumberOfFile(k) : k \in 1 .. Len(files)} = JournalNumbers

\* the entry applyEntry is about to apply
Applying == pc = "apply" /\ ai <= Len(entries) /\ ApplyFlag

\* C28: replay never writes outside the mapped extent of a destination file:
\* whenever applyEntry stores the bytes of a basic write or of an ObjAppend
\* (its 3 preamble bytes and its end marker included), every byte stored lies
\* in [0, file length) of the file addressed, with the file opened by that
\* entry or already cached.
C28_WritesInExtent ==
    [][(/\ Applying
        /\ entries[ai].kind \in {"e", "d"}
        /\ \/ Len(applied') = Len(applied) + 1
           \/ pc' = "crashed" /\ entries[ai].dbName # NullPtr)
       => InExtent(disk, EntryPtrs(entries[ai]).dst.name,
                   StoreOfs(entries[ai].tok), StoreLen(entries[ai].tok))]_vars

\* the byte an ObjAppend t with source file src leaves at offset o of its
\* destination file, for o in dstOfs-3 .. dstOfs+len
ObjAppendByte(dsk, src, t, o) ==
    CASE o = t.dstOfs - 3 -> Object
      [] o = t.dstOfs - 2 -> LetterO
      [] o = t.dstOfs - 1 -> 0
      [] o = t.dstOfs + t.len -> EOO
      [] OTHER -> dsk[src].data[t.srcOfs + (o - t.dstOfs) + 1]

\* C29: applying an ObjAppend changes exactly the bytes dstOfs-3 .. dstOfs+len
\* of file dstFileNo of database "local": the len bytes at dstOfs become the
\* source bytes of (sticky database name, srcFileNo) at srcOfs, the three
\* bytes before them become Object, 'o', 0, the byte after them the end
\* marker, and no other byte of any file changes.
C29_ObjAppendFrame ==
    [][(/\ Applying
        /\ entries[ai].kind = "d"
        /\ Len(applied') = Len(applied) + 1)
       => LET e == entries[ai]
              t == e.tok
              dst == FileName("local", t.dstFileNo)
              src == FileName(ExpectedDb(journal[e.at[1]], e.pos), t.srcFileNo)
          IN  \A name \in FileNames :
                  /\ disk'[name].exists = disk[name].exists
                  /\ Len(disk'[name].data) = Len(disk[name].data)
                  /\ \A o \in 0 .. Len(disk[name].data) - 1 :
                        disk'[name].data[o + 1] =
                            IF name = dst /\ o \in t.dstOfs - 3 .. t.dstOfs + t.len
                            THEN ObjAppendByte(disk, src, t, o)
                            ELSE disk[name].data[o + 1]]_vars

\* an ObjAppend was applied last: the five bytes from dstOfs-3 on are the
\* preamble, the byte of the source file and the end marker, the byte after
\* them is as it was
C29_Witness ==
    /\ applied # << >>
    /\ LET a == applied[Len(applied)]
           t == a.e.tok
       IN  /\ a.e.kind = "d"
           /\ a.src[1] \in ContextNames
           /\ ReadBytes(disk, a.name, t.dstOfs - 3, t.len + 4)
                 = <<Object, LetterO, 0, InitDisk[a.src].data[t.srcOfs + 1], EOO>>
           /\ disk[a.name].data[t.dstOfs + t.len + 2]
                 = InitDisk[a.name].data[t.dstOfs + t.len + 2]

\* C30: for every requested count n, n = 0 included, after each call of
\* GeoHopper::addSpecific the holder has n points at most, _farthest is the
\* largest exact distance held once a point was inserted, and the read of the
\* last held point that recomputes _farthest is never made on an empty holder.
C30_HolderWithinMax ==
    \A a \in Hoppers :
        /\ Len(a.points) <= a.max
        /\ a.points # << >> => a.farthest = a.points[Len(a.points)].exactDistance
        /\ ~a.undefined

\* the place of a record locator in the order of insertion
InsertedAt(loc) == CHOOSE k \in 1 .. Len(ret.order) : ret.order[k] = loc
\* the exact distance a point for the document has
ExactDistanceOf(loc) == MinDistance(hopper, [recordLoc |-> loc])
\* the record locators of the points held
HeldLocs == {hopper.points[k].loc : k \in 1 .. Len(hopper.points)}

\* C31: points of equal exact distance are held, and so iterated, in the
\* order in which they were inserted; and a point dropped by the truncation to n
\* is not nearer than any point held, and the points held at its distance were
\* all inserted before it: of the points tied at the largest distance the one
\* inserted last is dropped.
C31_TiesInInsertionOrder ==
    ret.kind = "inserted" =>
        /\ \A j, k \in 1 .. Len(hopper.points) :
              (j < k /\ hopper.points[j].exactDistance = hopper.points[k].exactDistance)
                  => InsertedAt(hopper.points[j].loc) < InsertedAt(hopper.points[k].loc)
        /\ \A d \in 1 .. Len(ret.order) :
              ret.order[d] \notin HeldLocs =>
                  \A k \in 1 .. Len(hopper.points) :
                      /\ hopper.points[k].exactDistance <= ExactDistanceOf(ret.order[d])
                      /\ hopper.points[k].exactDistance = ExactDistanceOf(ret.order[d])
                            => InsertedAt(hopper.points[k].loc) < d
\* three points of one distance were inserted; the first two are held in the
\* order of insertion, the third was dropped
C31_Witness ==
    /\ ret.kind = "inserted" /\ Len(ret.order) = 3 /\ Len(hopper.points) = 2
    /\ hopper.points[1].loc = ret.order[1] /\ hopper.points[2].loc = ret.order[2]
    /\ hopper.points[1].exactDistance = hopper.points[2].exactDistance
    /\ ExactDistanceOf(ret.order[3]) = hopper.points[2].exactDistance
    /\ ret.order[1] > ret.order[2]

\* the keys that an add took as new: those seen after it and not before
NewlySeen(a, b) == b.seen \ a.seen
\* the verdicts kept: none is dropped or changed, one at most is added
VerdictsKept(a, b) ==
    /\ DOMAIN a.matched \subseteq DOMAIN b.matched
    /\ \A l \in DOMAIN a.matched : b.matched[l] = a.matched[l]
    /\ Cardinality(DOMAIN b.matched) <= Cardinality(DOMAIN a.matched) + 1
\* a key of a document that failed the predicate is only marked as seen
FailedStaysOut(a, b) ==
    \A pos \in NewlySeen(a, b) :
        (index.tree[pos].recordLoc \in DOMAIN a.matched
            /\ ~a.matched[index.tree[pos].recordLoc])
        => b = [a EXCEPT !.seen = b.seen]

\* C32: the predicate is evaluated once per record locator at most and its
\* verdict is kept: a verdict is never changed or evaluated again, a key of a
\* document that failed the predicate does not reach addSpecific and does not
\* count in _found, and an add of a key already seen changes nothing.
C32_VerdictCached ==
    [][hopper.kind = "hopper" =>
          /\ VerdictsKept(hopper, hopper')
          /\ FailedStaysOut(hopper, hopper')
          /\ NewlySeen(hopper, hopper') = {} => hopper' = hopper
          /\ hopper'.found <= hopper.found + 1]_vars
\* two keys of a document that failed the predicate were added, and a point of
\* another document is held
C32_Witness ==
    /\ hopper.kind = "hopper"
    /\ \E l \in DOMAIN hopper.matched :
          /\ ~hopper.matched[l]
          /\ Cardinality({pos \in hopper.seen : index.tree[pos].recordLoc = l}) = 2
    /\ hopper.found = 1 /\ Len(hopper.points) = 1

\* C33: the two assertions after the nested fillStack of the neighbour loop
\* never fail: the nested call returns in DOING_EXPAND when the budget is used
\* up and in DONE otherwise; and every fillStack called from outside returns
\* with _state DOING_EXPAND or DONE.
C33_NestedFillStackAsserts ==
    (browse # NoObject /\ browse.kind \in {"circle", "box"}) =>
        /\ ~browse.asserted
        /\ browse.state \in {"DOING_EXPAND", "DONE"}
\* the constructor made one fillStack call, which went from the centre to a
\* neighbour, used up its budget in the nested call and passed the first
\* assertion
C33_Witness ==
    /\ browse # NoObject /\ ret.kind = "ret" /\ ret.call = "new"
    /\ browse.state = "DOING_EXPAND" /\ browse.neighbor >= 0
    /\ browse.prefix # browse.centerPrefix
    /\ browse.browseFound >= MaxPointsHeuristic
    /\ browse.browseFound < 2 * MaxPointsHeuristic
    /\ ~browse.asserted

\* a fillStack on a cursor that is not done scans a key, shortens the prefix,
\* moves to a later neighbour or ends the search
FillStackProgress ==
    (browse # NoObject /\ browse.state # "DONE" /\ ret'.call = "fillStack") =>
        \/ browse'.browseFound > browse.browseFound
        \/ browse'.prefix.bits < browse.prefix.bits
        \/ browse'.neighbor > browse.neighbor
        \/ browse'.state = "DONE"
\* the neighbours a nested fillStack can have been called for when _neighbor
\* is n: those before n and n itself, without the centre
NestBound(n) == Cardinality({k \in 0 .. 8 : k <= n /\ k # 4})
\* the last call on the cursor was advance()
AdvanceCalled == ret.kind = "ret" /\ ret.call = "advance"
\* advance() on a cursor that is not done changes the cursor
AdvanceMoves ==
    (browse # NoObject /\ browse.state # "DONE") => Advance(browse).b # browse

\* C34: for a finite index a region cursor terminates: when advance() is
\* called again and again _state becomes DONE, advance() on a cursor that is
\* not done changes the cursor, and every fillStack before DONE
\* scans a key, shortens the prefix, moves to a later neighbour or ends the
\* search; nested fillStack calls are one per neighbour, so never more than 8
\* are nested.
C34_BrowseTerminates ==
    /\ [](browse # NoObject =>
            /\ browse.depth = 0
            /\ browse.deepest <= NestBound(browse.neighbor)
            /\ browse.deepest <= 8)
    /\ []AdvanceMoves
    /\ [][FillStackProgress]_vars
    /\ <>(browse # NoObject /\ browse.state = "DONE")
\* a cursor that is done after advance() was called, three fillStack calls
\* having been nested, one in the other
C34_Witness ==
    /\ browse # NoObject /\ browse.state = "DONE" /\ browse.deepest = 3
    /\ AdvanceCalled /\ ~ret.value

\* the documents that addSpecific took for the cursor
AcceptedDocs == {browse.accepted[k] : k \in 1 .. Len(browse.accepted)}

\* C35: after the construction of a region cursor and after every call of
\* ok() and advance() a queue that is not empty comes with a _cur that is not
\* empty, an empty _cur comes with an empty queue and _state = DONE, and when
\* the call returned true _cur is a document that addSpecific accepted.
C35_CursorInvariant ==
    (browse # NoObject /\ ret.kind = "ret" /\ ret.call \in {"new", "ok", "advance"}) =>
        /\ Len(browse.stack) > 0 => browse.cur # 0
        /\ browse.cur = 0 => (browse.stack = << >> /\ browse.state = "DONE")
        /\ ret.value =>
              /\ browse.cur \in AcceptedDocs
              /\ browse.cur \in 1 .. Len(index.docs)
        /\ ~ret.value => browse.cur = 0
\* advance() returned true with documents left in the queue, after an ok()
C35_Witness ==
    /\ browse # NoObject /\ ret.kind = "ret" /\ ret.call = "advance" /\ ret.value
    /\ ret.before.call = "ok"
    /\ Len(browse.stack) > 0 /\ browse.cur # 0 /\ browse.state # "DONE"
\* a call returned false: the cursor is done, _cur and the queue are empty
C35_WitnessDone ==
    /\ browse # NoObject /\ ret.kind = "ret" /\ ret.call = "ok" /\ ~ret.value
    /\ browse.cur = 0 /\ browse.state = "DONE" /\ Len(browse.accepted) > 0

\* the cells of a level along one axis
CellsOf(h) == 0 .. (2 ^ h.bits) - 1
\* the neighbour v of the centre cell is the cell next to it at the offset of
\* its index, reached without a wrap
NextToCenter(b, v) ==
    /\ v.neighbor \in (0 .. 8) \ {4}
    /\ v.prefix.bits = b.centerPrefix.bits
    /\ v.prefix.x = b.centerPrefix.x + (v.neighbor \div 3) - 1
    /\ v.prefix.y = b.centerPrefix.y + (v.neighbor % 3) - 1
    /\ v.prefix.x \in CellsOf(b.centerPrefix) /\ v.prefix.y \in CellsOf(b.centerPrefix)

\* C36: in the neighbour phase of a region cursor each of the eight
\* neighbours of the centre cell is expanded at most once and in the order of
\* its index, the centre (offset (0,0), index 4) is not expanded again, and no
\* cell is expanded that GeoHash::move reaches only by wrapping around an
\* edge of the world.
C36_NeighborsOnce ==
    browse # NoObject =>
        /\ \A k \in 1 .. Len(browse.visited) : NextToCenter(browse, browse.visited[k])
        /\ \A k \in 1 .. Len(browse.visited) - 1 :
              browse.visited[k].neighbor < browse.visited[k + 1].neighbor
        /\ Len(browse.visited) > 0 => browse.visited[Len(browse.visited)].neighbor <= browse.neighbor
\* a cursor that is done, with its centre cell in the upper corner of the
\* world: three neighbours were expanded, the centre and the five cells
\* beyond the edges were passed over
C36_Witness ==
    /\ browse # NoObject /\ browse.state = "DONE" /\ browse.neighbor = 9
    /\ browse.centerBox.max.x >= GeoMax /\ browse.centerBox.max.y >= GeoMax
    /\ Len(browse.visited) = 3
\* a cursor that is done, with all the neighbours of its centre cell in the
\* world, three of which were expanded
C36_WitnessInside ==
    /\ browse # NoObject /\ browse.state = "DONE" /\ browse.neighbor = 9
    /\ browse.centerBox.min.x > GeoMin /\ browse.centerBox.min.y > GeoMin
    /\ browse.centerBox.max.x < GeoMax /\ browse.centerBox.max.y < GeoMax
    /\ Len(browse.visited) = 3

\* min <= max on both axes, and the four bounds in [ _min, _max ] of the index
Normalized(box) ==
    /\ box.min.x <= box.max.x /\ box.min.y <= box.max.y
    /\ \A v \in {box.min.x, box.min.y, box.max.x, box.max.y} : v >= GeoMin /\ v <= GeoMax

\* C37: the _want of every box cursor that was constructed is normalized:
\* min <= max on both axes and the four bounds in [ _min, _max ]; a box that
\* fixBox does not normalize makes the constructor fail with a uassert, and no
\* cursor exists.
C37_BoxNormalized ==
    /\ (browse # NoObject /\ browse.kind = "box") =>
          (Normalized(browse.want) /\ browse.want = FixBox(query))
    /\ (query.kind = "box" /\ ret # NoObject /\ ~Normalized(FixBox(query))) =>
          (ret.kind = "uassert" /\ browse = NoObject)
\* a cursor for a box given with its corners in the other order on both axes
\* and one of them outside the world
C37_Witness ==
    /\ browse # NoObject /\ browse.kind = "box"
    /\ query.min.x > query.max.x /\ query.min.y > query.max.y
    /\ query.min.x > GeoMax /\ query.max.y < GeoMin
\* a box above the world on both axes: fixBox leaves min > max on both, the
\* area is positive, and the hash of the centre fails
C37_WitnessOutside ==
    /\ ret # NoObject /\ ret.kind = "uassert" /\ ret.code = 13027
    /\ Area(FixBox(query)) > 0 /\ ~Normalized(FixBox(query))

\* the names of the operators of $within
KnownWithin ==
    {CenterName, CenterName \o SphereSuffix, BoxName, PolygonName}
\* a query without a geo operator on the geo field fails with 13042
NoOperatorRejected ==
    (ret # NoObject /\ query.geo.op \in {"none", "other"}) => ret = Thrown(13042)

\* C38: newCursor fails with an exception on every operator of $within whose
\* name is not $center, $centerSphere, $box or $polygon, and makes no cursor
\* for it; a query without a geo operator on the geo field fails with 13042.
C38_UnknownWithinRejected ==
    /\ (ret # NoObject /\ query.geo.op = "within" /\ query.geo.name \notin KnownWithin) =>
          ret.kind = "uassert"
    /\ NoOperatorRejected
\* the same, for the names that do not start with $poly
UnknownWithinRejectedButPoly ==
    /\ (/\ ret # NoObject /\ query.geo.op = "within"
        /\ query.geo.name \notin KnownWithin
        /\ ~StartsWith(query.geo.name, PolyName)) =>
          /\ ret.kind = "uassert"
          /\ (query.geo.withinIsObj /\ query.geo.argIsObj) => ret.code \in {13058, 13460}
    /\ (/\ ret # NoObject /\ query.geo.op = "within" /\ query.geo.name \in KnownWithin
        /\ query.geo.withinIsObj /\ query.geo.argIsObj) => ret.kind = "cursor"
    /\ NoOperatorRejected
\* a polygon cursor for the operator $poly
PolyAccepted ==
    /\ ret # NoObject /\ ret.kind = "cursor" /\ ret.class = "GeoPolygonBrowse"
    /\ query.geo.name = PolyName

\* the tests of the loop condition that phase 1 of the search made
Tests == search.tests
\* the cell edge of the prefix is at most, is less than, the scan distance
\* _maxDistance + _error
EdgeAtMostScan(prefix) == ~FarLess(query.maxDistance, SizeEdge(prefix))
EdgeBelowScan(prefix) == ~FarLeq(query.maxDistance, SizeEdge(prefix))
\* the passes of phase 1 start at the hash of the query point and shorten the
\* prefix by one level each
PrefixShortens ==
    /\ Len(Tests) > 0 => Tests[1].prefix = Hash(query.startPt)
    /\ \A k \in 1 .. Len(Tests) - 1 :
          /\ Tests[k].go /\ Constrains(Tests[k].prefix)
          /\ Tests[k + 1].prefix = Up(Tests[k].prefix)

\* C39: phase 1 of GeoSearch::exec sweeps the prefix and shortens it while the
\* prefix constrains, fewer than numWanted points are held and the cell edge
\* of the prefix is at most the scan distance; it goes on to phase 2 as soon
\* as numWanted points are held or the cell edge is above the scan distance.
\* A prefix that no longer constrains is swept too, and exec returns after it
\* without phase 2.
C39_Phase1Loop ==
    (search.kind = "search" /\ search.phase # 0) =>
        /\ PrefixShortens
        /\ \A k \in 1 .. Len(Tests) :
              Tests[k].go <=>
                 \/ ~Constrains(Tests[k].prefix)
                 \/ Tests[k].found < query.numWanted /\ EdgeAtMostScan(Tests[k].prefix)
        /\ search.phase = 1 =>
              (Len(Tests) = 0 \/ ~Constrains(Tests[Len(Tests)].prefix))
        /\ search.phase \in {2, 3} =>
              (Len(Tests) > 0 /\ ~Tests[Len(Tests)].go)
\* the statement of the claim: the loop goes on while the prefix constrains
\* and fewer than numWanted points are held or the cell edge is below the scan
\* distance
C39_Phase1AsClaimed ==
    (search.kind = "search" /\ search.phase # 0) =>
        \A k \in 1 .. Len(Tests) :
            Tests[k].go <=>
               /\ Constrains(Tests[k].prefix)
               /\ \/ Tests[k].found < query.numWanted
                  \/ EdgeBelowScan(Tests[k].prefix)
\* phase 1 ended with numWanted points held, after a pass, with a cell edge
\* below the scan distance
C39_Witness ==
    /\ search.kind = "search" /\ search.phase \in {2, 3}
    /\ Len(Tests) > 1 /\ ~Tests[Len(Tests)].go
    /\ query.numWanted > 0
    /\ Tests[Len(Tests)].found >= query.numWanted
    /\ Len(search.hopper.points) = query.numWanted
    /\ EdgeBelowScan(Tests[Len(Tests)].prefix)
\* phase 1 ended with fewer than numWanted points held, the cell edge above
\* the scan distance
C39_WitnessEdge ==
    /\ search.kind = "search" /\ search.phase \in {2, 3}
    /\ Len(Tests) > 1 /\ ~Tests[Len(Tests)].go
    /\ Tests[Len(Tests)].found < query.numWanted
\* the prefix stopped constraining: the last pass swept the whole index
C39_WitnessUniverse ==
    /\ search.kind = "search" /\ search.phase = 1
    /\ Len(Tests) > 1 /\ ~Constrains(Tests[Len(Tests)].prefix) /\ Tests[Len(Tests)].go

\* C40: a scan is interruptible: when the interrupt flag of the operation is
\* set while the geoCluster command is scanning, the command ends with a
\* cancellation error and not with its result.
C40_KilledScanAborts ==
    (query.kind = "geoCluster" /\ query.killed /\ ret # NoObject) =>
        ret.kind = "interrupted"
\* the flag was set with passes left to make, and the command returned the
\* clusters and markers of all the documents
KilledRunCompleted ==
    /\ query.kind = "geoCluster" /\ query.killed
    /\ ret # NoObject /\ ret.kind = "geoCluster"
    /\ Len(ret.markers) + Len(ret.clusters) > 0

=============================================================================
